---- MODULE Spec2Model ----
(***************************************************************************)
(* Model of the spaCy NER service (src/spacy-service): the result cache    *)
(* NERCache of performance_optimizer.py and the /ner request handler       *)
(* extract_entities of app.py.                                             *)
(*                                                                         *)
(* Confidence values are floats in [0,1] in the source; here they are      *)
(* integers in ten-thousandths (0.65 is 6500), so that round(x, 3) is a    *)
(* real operation (rounding to a multiple of 10).  Time is an integer       *)
(* clock read by time.time().                                               *)
(***************************************************************************)
EXTENDS Integers, Sequences, FiniteSets, TLC

VARIABLES
    cache,          \* NERCache.cache: dict key -> result, in insertion order
    access_times,   \* NERCache.access_times: dict key -> float, in insertion order
    max_size,       \* NERCache.max_size
    ttl,            \* NERCache.ttl
    now,            \* the clock time.time() reads
    stamps,         \* history: key -> when a resident key was last set and last accessed
    lastOp,         \* history: the cache call that returned last
    models,         \* app.models: the engines that loaded (value not None)
    custom_rulers,  \* app.custom_rulers: the engines that have an entity ruler
    response,       \* history: the request handled last and its outcome
    batch_response, \* history: the batch request handled last and its outcome
    labels_response,\* history: the labels the last GET /labels returned
    service,        \* where the lifespan of the application stands
    calls,          \* history: the label arguments of the last two cache calls
    threads,        \* the calls in progress on one NERCache, one per thread
    handler,        \* the auto request in progress: where extract_entities stands
    ruler,          \* one BrandProductEntityRuler: its pattern lists and its matcher
    probe,          \* history: the last call of a function and what it returned
    gauges          \* the circuit_breaker_* gauges of app.py

cacheVars == <<cache, access_times, max_size, ttl, stamps, lastOp>>
nerVars == <<models, custom_rulers, response>>
otherVars == <<batch_response, labels_response, service, calls, threads,
               handler, ruler, probe, gauges>>
vars == <<cache, access_times, max_size, ttl, now, stamps, lastOp,
          models, custom_rulers, response,
          batch_response, labels_response, service, calls, threads,
          handler, ruler, probe, gauges>>

None == "None"

\* no auto request in progress
NoHandler == [pc |-> "idle"]

\* no ruler built
NoRuler == [brand_patterns |-> <<>>, product_patterns |-> <<>>, matcher |-> <<>>]

\* no function called yet
NoProbe == [fn |-> "none"]

\* labels=None, where a list of labels is expected
NoLabels == <<"None">>

\* no key, where a cache key is expected
NoKey == <<>>

\* ------------------------------------------------------------------ bounds
\* the clock runs from 0 to MaxTime
MaxTime == 2
\* the ttl the cache is built with (3600 for the global ner_cache)
CacheTtl == 2
\* the cache is built with max_size in 1..MaxSizeBound (1000 for ner_cache)
MaxSizeBound == 2

\* ------------------------------------------------- Python dict, as a sequence
\* A dict keeps insertion order: assigning to a present key keeps its place,
\* a new key goes last, del removes it.
DictKeys(d) == {d[i].k : i \in DOMAIN d}

DictHas(d, key) == key \in DictKeys(d)

DictGet(d, key) == d[CHOOSE i \in DOMAIN d : d[i].k = key].v

DictSet(d, key, val) ==
    IF DictHas(d, key)
    THEN [i \in DOMAIN d |-> IF d[i].k = key THEN [k |-> key, v |-> val] ELSE d[i]]
    ELSE Append(d, [k |-> key, v |-> val])

DictDel(d, key) == SelectSeq(d, LAMBDA e : e.k # key)

\* --------------------------------------------------------------- cache keys
\* Labels in the order sorted() gives them.
LabelOrder == <<"BRAND", "ORG", "PERSON", "PRODUCT">>

Labels == {LabelOrder[i] : i \in DOMAIN LabelOrder}

RECURSIVE SortedFrom(_, _)
SortedFrom(labels, i) ==
    IF i > Len(LabelOrder) THEN <<>>
    ELSE SelectSeq(labels, LAMBDA l : l = LabelOrder[i]) \o SortedFrom(labels, i + 1)

\* `labels or []` without sorted()
SortedLabels_unsorted(labels) == IF labels = NoLabels THEN <<>> ELSE labels

\* sorted(labels or [])
SortedLabels(labels) == IF labels = NoLabels THEN <<>> ELSE SortedFrom(labels, 1)

\* _generate_key: the f-string's four fields and its ':' separators, kept
\* apart (key_data below is the string itself); the md5 digest of it is taken
\* to be one-to-one.
generate_key(text, model, min_confidence, labels) ==
    <<text, ":", model, ":", min_confidence, ":", SortedLabels(labels)>>

\* ------------------------------------------------------------------ NERCache
\* The calls made on the cache: three texts, one of them also with labels=[]
\* where the others pass labels=None.
CacheRequests ==
    {[text |-> "a", model |-> "en_core_web_sm", min_confidence |-> 5000, labels |-> NoLabels],
     [text |-> "a", model |-> "en_core_web_sm", min_confidence |-> 5000, labels |-> <<>>],
     [text |-> "b", model |-> "en_core_web_sm", min_confidence |-> 5000, labels |-> NoLabels],
     [text |-> "c", model |-> "en_core_web_sm", min_confidence |-> 5000, labels |-> NoLabels]}

CacheResults == {"R1", "R2"}

\* IsFresh with the comparison off by one
IsFresh_le(accessed, t, ttl_) == t - accessed <= ttl_

\* get, line 34: the entry is within its TTL
IsFresh(accessed, t, ttl_) == t - accessed < ttl_

\* IsFull with the comparison off by one
IsFull_gt(c, ms) == Len(c) > ms

\* set, line 49: the cache is full
IsFull(c, ms) == Len(c) >= ms

\* OldestKey with max for min
OldestKey_max(at) ==
    at[CHOOSE i \in DOMAIN at :
          /\ \A j \in DOMAIN at : at[i].v >= at[j].v
          /\ \A j \in DOMAIN at : j < i => at[j].v < at[i].v].k

\* set, line 50: min(access_times.keys(), key=...), the first of the smallest
OldestKey(at) ==
    at[CHOOSE i \in DOMAIN at :
          /\ \A j \in DOMAIN at : at[i].v <= at[j].v
          /\ \A j \in DOMAIN at : j < i => at[j].v > at[i].v].k

\* get, lines 32-42, as a function of the two dicts: the dicts after the call
\* and the value returned
get(c, at, key, t, ttl_) ==
    IF DictHas(c, key)
    THEN IF IsFresh(DictGet(at, key), t, ttl_)
         THEN [cache |-> c, access_times |-> DictSet(at, key, t),
               ret |-> DictGet(c, key)]
         ELSE [cache |-> DictDel(c, key), access_times |-> DictDel(at, key),
               ret |-> None]
    ELSE [cache |-> c, access_times |-> at, ret |-> None]

\* set that keeps the result of a key already present
set_no_overwrite(c, at, key, result, t, ms) ==
    LET full == IsFull(c, ms)
        oldest_key == IF full THEN OldestKey(at) ELSE NoKey
        c1 == IF full THEN DictDel(c, oldest_key) ELSE c
        at1 == IF full THEN DictDel(at, oldest_key) ELSE at
    IN [cache |-> IF DictHas(c1, key) THEN c1 ELSE DictSet(c1, key, result),
        access_times |-> DictSet(at1, key, t),
        evicted |-> oldest_key]

\* set, lines 48-55, as a function of the two dicts: the dicts after the call
\* and the key evicted (NoKey when the cache was not full)
set(c, at, key, result, t, ms) ==
    LET full == IsFull(c, ms)
        oldest_key == IF full THEN OldestKey(at) ELSE NoKey
        c1 == IF full THEN DictDel(c, oldest_key) ELSE c
        at1 == IF full THEN DictDel(at, oldest_key) ELSE at
    IN [cache |-> DictSet(c1, key, result), access_times |-> DictSet(at1, key, t),
        evicted |-> oldest_key]

\* lastOp: the call (op, key); the result a set stored or a get returned (val);
\* for a get of a resident key, the time since the most recent set of that key
\* (age); the key a set evicted; and, when the call before it was a set of the
\* same key, the result that set stored (set_val)
NoOp ==
    [op |-> "none", key |-> NoKey, val |-> None, age |-> 0, evicted |-> NoKey,
     set_val |-> None]

SetVal(key) == IF lastOp.op = "set" /\ lastOp.key = key THEN lastOp.val ELSE None

InitCache ==
    /\ cache = <<>>
    /\ access_times = <<>>
    /\ max_size \in 1..MaxSizeBound
    /\ ttl = CacheTtl
    /\ stamps = <<>>
    /\ lastOp = NoOp

\* History, not program state: for each resident key, the time of its most
\* recent set (inserted_at) and of its latest set or successful get
\* (last_accessed_at).  Entries leave with their key.
Resident(st, c) == SelectSeq(st, LAMBDA e : DictHas(c, e.k))

NERCache_get(text, model, min_confidence, labels) ==
    LET key == generate_key(text, model, min_confidence, labels)
        r == get(cache, access_times, key, now, ttl)
    IN /\ cache' = r.cache
       /\ access_times' = r.access_times
       /\ stamps' = IF r.ret # None THEN DictSet(stamps, key,
                                  [inserted_at |-> DictGet(stamps, key).inserted_at,
                                   last_accessed_at |-> now])
                     ELSE Resident(stamps, r.cache)
       /\ lastOp' = [op |-> "get", key |-> key, val |-> r.ret,
                     age |-> IF DictHas(stamps, key)
                             THEN now - DictGet(stamps, key).inserted_at ELSE 0,
                     evicted |-> NoKey, set_val |-> SetVal(key)]
       /\ UNCHANGED <<max_size, ttl, now>>

NERCache_set(text, model, min_confidence, labels, result) ==
    LET key == generate_key(text, model, min_confidence, labels)
        r == set(cache, access_times, key, result, now, max_size)
    IN /\ cache' = r.cache
       /\ access_times' = r.access_times
       /\ stamps' = DictSet(Resident(stamps, DictDel(r.cache, key)), key,
                            [inserted_at |-> now, last_accessed_at |-> now])
       /\ lastOp' = [op |-> "set", key |-> key, val |-> result, age |-> 0,
                     evicted |-> r.evicted, set_val |-> SetVal(key)]
       /\ UNCHANGED <<max_size, ttl, now>>

NERCache_clear ==
    /\ cache' = <<>>
    /\ access_times' = <<>>
    /\ stamps' = <<>>
    /\ lastOp' = [NoOp EXCEPT !.op = "clear"]
    /\ UNCHANGED <<max_size, ttl, now>>

\* time.time() moves on between calls
Tick ==
    /\ now < MaxTime
    /\ now' = now + 1
    /\ UNCHANGED <<cacheVars, nerVars, otherVars>>

CacheGet ==
    \E q \in CacheRequests :
        NERCache_get(q.text, q.model, q.min_confidence, q.labels)
        /\ UNCHANGED <<nerVars, otherVars>>

CacheSet ==
    \E q \in CacheRequests, res \in CacheResults :
        NERCache_set(q.text, q.model, q.min_confidence, q.labels, res)
        /\ UNCHANGED <<nerVars, otherVars>>

CacheClear == NERCache_clear /\ UNCHANGED <<nerVars, otherVars>>


\* ------------------------------------------------------------ the engines
FAST == "en_core_web_sm"

ACCURATE == "en_core_web_trf"

\* os.getenv('NER_TRF_ESCALATE_SPAN_CONF', '0.5')
NER_TRF_ESCALATE_SPAN_CONF == 5000

\* os.getenv('NER_TRF_MIN_CHARS', '500')
NER_TRF_MIN_CHARS == 500

\* os.getenv('NER_TRF_AVG_CONF', '0.65')
NER_TRF_AVG_CONF == 6500

\* The texts requests carry.  What spaCy and the Matcher find in a text is
\* outside the repository: each text stands for one outcome of nlp(text) and
\* of process_text(text).
Texts == {"T1", "T2", "T3", "T4", "T5", "T6", "T7", "T8"}

\* NERRequest.text: max_length=100000
MAX_LENGTH == 100000

\* BatchNERRequest.texts: max_items=100
MAX_ITEMS == 100

\* len(request.text); "T0" is the empty string and "T9" a text one character
\* longer than a NERRequest may carry
TextLength(text) ==
    CASE text = "T0" -> 0
      [] text = "T9" -> MAX_LENGTH + 1
      [] text = "T3" -> 46
      [] text = "T4" -> 500
      [] text = "T6" -> 12
      [] OTHER -> 50

Ent(text, label, start) ==
    [text |-> text, label |-> label, start |-> start, end |-> start + Len(text)]

\* nlp(request.text) raises
nlp_raises(model_name, text) == text = "T5"

\* doc.ents of nlp(request.text): the spans and labels the engine returns
doc_ents(model_name, text) ==
    CASE text = "T1" ->
            IF model_name = FAST THEN <<Ent("IBM", "ORG", 0)>>
            ELSE <<Ent("IBM", "ORG", 0), Ent("Tim Cook", "PERSON", 10)>>
      [] text = "T2" -> <<Ent("Microsoft", "ORG", 0)>>
      [] text = "T3" ->
            IF model_name = FAST THEN <<Ent("Apple", "ORG", 0)>>
            ELSE <<Ent("Apple", "ORG", 0), Ent("Gemini Pro", "PRODUCT", 23)>>
      [] text = "T4" -> <<Ent("Contentstack", "ORG", 0)>>
      [] text = "T6" -> <<Ent("Apple", "ORG", 7)>>
      [] text = "T8" ->
            IF model_name = FAST THEN <<Ent("Salesforce", "ORG", 4), Ent("Bob", "PERSON", 30)>>
            ELSE <<Ent("Salesforce", "ORG", 4)>>
      [] OTHER -> <<>>

Custom(text, label, start, end, confidence) ==
    [text |-> text, label |-> label, start |-> start, end |-> end,
     confidence |-> confidence, source |-> "custom_ruler"]

\* custom_rulers[model_name].process_text(request.text) raises
process_text_raises(text) == text = "T6"

\* custom_rulers[model_name].process_text(request.text): the candidates of the
\* ruler, each with the confidence calculate_confidence gave it (0.8 to 1.0)
process_text(text) ==
    CASE text = "T2" ->
            <<Custom("Microsoft", "BRAND", 0, 9, 10000),
              Custom("Microsoft", "PRODUCT", 0, 9, 10000)>>
      [] text = "T3" ->
            <<Custom("Apple", "BRAND", 0, 6, 10000),
              Custom("Gemini", "BRAND", 23, 30, 10000),
              Custom("Gemini Pro", "PRODUCT", 23, 33, 9000)>>
      [] text = "T8" ->
            <<Custom("chatgpt", "PRODUCT", 20, 28, 8000),
              Custom("Salesforce", "BRAND", 4, 15, 9000)>>
      [] OTHER -> <<>>

\* ------------------------------------------------------- extract_entities
Min(a, b) == IF a < b THEN a ELSE b

\* calculate_entity_confidence: min(1.0, max(0.0, len(entity_text) / 10.0))
calculate_entity_confidence(entity_text) ==
    LET tenth == (Len(entity_text) * 10000) \div 10
    IN Min(10000, IF 0 > tenth THEN 0 ELSE tenth)

\* round(x, 3): to the nearest thousandth, a tie to the even one
Round3(c) ==
    LET r == c % 10
        down == c - r
    IN IF r > 5 THEN down + 10
       ELSE IF r < 5 THEN down
       ELSE IF (down \div 10) % 2 = 0 THEN down ELSE down + 10

\* the truth test as `is not None`
Truthy_not_none(labels) == labels # NoLabels

\* `request.labels and ...`: None and [] are both false
Truthy(labels) == labels # NoLabels /\ labels # <<>>

InLabels(label, labels) == \E i \in DOMAIN labels : labels[i] = label

\* KeepCustom without the confidence filter
KeepCustom_labels_only(custom_entity, request) ==
    ~(Truthy(request.labels) /\ ~InLabels(custom_entity.label, request.labels))

\* lines 300-303: the ruler's candidate passes the two filters
KeepCustom(custom_entity, request) ==
    /\ ~(custom_entity.confidence < request.min_confidence)
    /\ ~(Truthy(request.labels) /\ ~InLabels(custom_entity.label, request.labels))

\* custom_pass with no try block around the ruler
custom_pass_unguarded(model_name, request) ==
    [raised |-> model_name \in custom_rulers /\ process_text_raises(request.text),
     entities |-> IF model_name \in custom_rulers /\ ~process_text_raises(request.text)
                  THEN process_text(request.text)
                  ELSE <<>>]

\* lines 295-307: the ruler's candidates; an exception of the ruler is caught
\* and logged, and nothing of the ruler is appended
custom_pass(model_name, request) ==
    [raised |-> FALSE,
     entities |-> IF model_name \in custom_rulers /\ ~process_text_raises(request.text)
                  THEN process_text(request.text)
                  ELSE <<>>]

\* process_with_model, lines 268-309: whether it raised, the list it returns
\* (collected) and, as history, every candidate before the filters (raw)
process_with_model(model_name, request) ==
    IF model_name \notin models
    THEN [raised |-> FALSE, ran |-> FALSE, collected |-> <<>>, raw |-> <<>>]
    ELSE IF nlp_raises(model_name, request.text)
    THEN [raised |-> TRUE, ran |-> TRUE, collected |-> <<>>, raw |-> <<>>]
    ELSE
        LET ents == doc_ents(model_name, request.text)
            \* lines 286-293: the dict appended for an engine entity
            all == [i \in DOMAIN ents |->
                       [text |-> ents[i].text, label |-> ents[i].label,
                        start |-> ents[i].start, end |-> ents[i].end,
                        confidence |-> calculate_entity_confidence(ents[i].text),
                        source |-> model_name]]
            \* lines 280-283: the engine entity passes the two filters
            kept == SelectSeq(all, LAMBDA e :
                        /\ ~(e.confidence < request.min_confidence)
                        /\ ~(Truthy(request.labels) /\ ~InLabels(e.label, request.labels)))
            from_ruler == custom_pass(model_name, request)
            custom_entities == from_ruler.entities
            kept_custom == SelectSeq(custom_entities, LAMBDA e : KeepCustom(e, request))
        IN IF from_ruler.raised
           THEN [raised |-> TRUE, ran |-> TRUE, collected |-> <<>>, raw |-> <<>>]
           ELSE [raised |-> FALSE, ran |-> TRUE, collected |-> kept \o kept_custom,
                 raw |-> all \o custom_entities]

RECURSIVE SumConfidence(_)
SumConfidence(entities) ==
    IF entities = <<>> THEN 0
    ELSE Head(entities).confidence + SumConfidence(Tail(entities))

\* line 337: avg_conf < NER_TRF_AVG_CONF, the mean of no entities being 1.0
\* (exact arithmetic; the source divides in floating point)
AvgConfBelow(sm_entities, threshold) ==
    IF sm_entities = <<>> THEN 10000 < threshold
    ELSE SumConfidence(sm_entities) < threshold * Len(sm_entities)

\* line 338: low_conf_exists
LowConfExists(sm_entities) ==
    \E i \in DOMAIN sm_entities : sm_entities[i].confidence < NER_TRF_ESCALATE_SPAN_CONF

\* Escalate with no test of use_trf
Escalate_without_trf(request, sm_entities, use_trf) ==
    \/ TextLength(request.text) >= NER_TRF_MIN_CHARS
    \/ AvgConfBelow(sm_entities, NER_TRF_AVG_CONF)
    \/ LowConfExists(sm_entities)

\* lines 341-348: the escalation decision
Escalate(request, sm_entities, use_trf) ==
    /\ use_trf
    /\ \/ TextLength(request.text) >= NER_TRF_MIN_CHARS
       \/ AvgConfBelow(sm_entities, NER_TRF_AVG_CONF)
       \/ LowConfExists(sm_entities)

\* Span Key variant that tells labels apart
SpanKey_with_label(entity) == <<entity.text, entity.start, entity.end, entity.label>>

\* line 375: key = (entity['text'], entity['start'], entity['end'])
SpanKey(entity) == <<entity.text, entity.start, entity.end>>

\* Replaces with >= for >
Replaces_ge(entity, key, entity_map) ==
    \/ ~DictHas(entity_map, key)
    \/ entity.confidence >= DictGet(entity_map, key).confidence

\* line 376: the entity takes the place of its key in entity_map
Replaces(entity, key, entity_map) ==
    \/ ~DictHas(entity_map, key)
    \/ entity.confidence > DictGet(entity_map, key).confidence

\* lines 373-377: entity_map after the loop over the entities
RECURSIVE Deduplicate(_, _)
Deduplicate(entities, entity_map) ==
    IF entities = <<>> THEN entity_map
    ELSE LET entity == Head(entities)
             key == SpanKey(entity)
         IN Deduplicate(Tail(entities),
                IF Replaces(entity, key, entity_map)
                THEN DictSet(entity_map, key, entity)
                ELSE entity_map)

\* lines 379-388: the Entity built from each value of entity_map
EntitiesOut(entity_map) ==
    [i \in DOMAIN entity_map |->
        [text |-> entity_map[i].v.text, label |-> entity_map[i].v.label,
         start |-> entity_map[i].v.start, end |-> entity_map[i].v.end,
         confidence |-> Round3(entity_map[i].v.confidence)]]

\* lines 312-318: requested_model = request.model.strip(), and 'auto' for any
\* spelling of it in upper or lower case.  " AUTO " stands for the selectors
\* that strip() and lower() change.
requested_model(model) == IF model = " AUTO " THEN "auto" ELSE model

\* lines 326-370: the passes run, in order, and what they give
\*   raised: an exception left the try block; no_models: it was the
\*   HTTPException of line 365
SelectAndRun(request) ==
    LET none == [raised |-> FALSE, no_models |-> FALSE, entities_final |-> <<>>,
                 model_used |-> None, passes |-> <<>>, escalate |-> FALSE,
                 raw_fast |-> <<>>, raw_used |-> <<>>]
    IN IF requested_model(request.model) = "auto"
       THEN LET use_sm == FAST \in models
                use_trf == ACCURATE \in models
            IN IF use_sm
               THEN LET sm == process_with_model(FAST, request)
                        escalate == Escalate(request, sm.collected, use_trf)
                        trf == process_with_model(ACCURATE, request)
                    IN IF sm.raised
                       THEN [none EXCEPT !.raised = TRUE, !.passes = <<FAST>>]
                       ELSE IF escalate
                       THEN IF trf.raised
                            THEN [none EXCEPT !.raised = TRUE,
                                              !.passes = <<FAST, ACCURATE>>,
                                              !.escalate = TRUE, !.raw_fast = sm.raw]
                            ELSE [none EXCEPT !.entities_final = trf.collected,
                                              !.model_used = ACCURATE,
                                              !.passes = <<FAST, ACCURATE>>,
                                              !.escalate = TRUE, !.raw_fast = sm.raw,
                                              !.raw_used = trf.raw]
                       ELSE [none EXCEPT !.entities_final = sm.collected,
                                         !.model_used = FAST, !.passes = <<FAST>>,
                                         !.raw_fast = sm.raw, !.raw_used = sm.raw]
               ELSE IF use_trf
               THEN LET trf == process_with_model(ACCURATE, request)
                    IN IF trf.raised
                       THEN [none EXCEPT !.raised = TRUE, !.passes = <<ACCURATE>>]
                       ELSE [none EXCEPT !.entities_final = trf.collected,
                                         !.model_used = ACCURATE,
                                         !.passes = <<ACCURATE>>,
                                         !.raw_used = trf.raw]
               ELSE [none EXCEPT !.raised = TRUE, !.no_models = TRUE]
       ELSE LET r == process_with_model(requested_model(request.model), request)
            IN IF r.raised
               THEN [none EXCEPT !.raised = TRUE,
                                 !.passes = <<requested_model(request.model)>>]
               ELSE [none EXCEPT !.entities_final = r.collected,
                                 !.model_used = requested_model(request.model),
                                 !.passes = <<requested_model(request.model)>>,
                                 !.raw_used = r.raw]

\* batch_response: the batch request handled last, its HTTP status, the
\* NERResponse of each text and, as history, the engines whose nlp.pipe ran
\* and the engines that were loaded when it was handled
NoBatchResponse ==
    [status |-> 0, detail |-> None, request |-> None, results |-> <<>>,
     passes |-> <<>>, available |-> {}]

\* response: the request handled last (request), the HTTP status and entities
\* of its NERResponse, the engine named in it, and as history: the engines whose
\* nlp was run, in order (passes); the escalation decision; the candidates of
\* the fast pass and of the pass returned, before the filters; whether the
\* request before it was an equal one, answered less than ttl earlier; the
\* engines that were loaded when it was handled (available).  Of an error
\* answer, detail is the fixed part of its "detail" and error the str(e) that
\* line 404 appends to it
NoResponse ==
    [status |-> 0, detail |-> None, error |-> None, request |-> None,
     entities |-> <<>>, model_used |-> None, passes |-> <<>>, escalate |-> FALSE,
     raw_fast |-> <<>>, raw_used |-> <<>>, repeat |-> FALSE, available |-> {}]

\* str(e) of the HTTPException of line 365, built with keyword arguments:
\* "500: No spaCy models available" where Starlette's HTTPException defines
\* __str__, and the empty string where it does not
StrNoModels == {"", "500: No spaCy models available"}

RequestKey(request) ==
    generate_key(request.text, request.model, request.min_confidence, request.labels)

\* a handler that empties ner_cache
ner_cache_after_dropped(request, c) == <<>>

\* ner_cache.cache when the handler returns or raises: no statement of the
\* handlers, and none of the except blocks of lines 402-404 and 467-469,
\* calls ner_cache
ner_cache_after(request, c) == c

\* lines 320-323: the test made before the try block; available_models are
\* the loaded engines
model_not_available_never(request) == FALSE

model_not_available(request) ==
    /\ requested_model(request.model) # "auto"
    /\ requested_model(request.model) \notin models

\* extract_entities, lines 253-404.  The handler reads and writes nothing of
\* ner_cache: app.py does not import performance_optimizer.
\* response.repeat is history: the request before this one was answered and
\* was the same in all four key fields.  Requests are handled one after the
\* other at one reading of the clock, so the earlier answer is 0 < ttl old.
extract_entities(request) ==
    LET base == [NoResponse EXCEPT !.request = request,
                                   !.repeat = /\ response.status = 200
                                              /\ RequestKey(response.request)
                                                    = RequestKey(request)
                                              /\ 0 < ttl,
                                   !.available = models]
    IN /\ IF model_not_available(request)
          THEN response' = [base EXCEPT !.status = 400, !.detail = "model not available"]
          ELSE LET r == SelectAndRun(request)
               IN IF r.raised
                  THEN \E msg \in IF r.no_models THEN StrNoModels ELSE {"engine error"} :
                          response' = [base EXCEPT !.status = 500,
                                                   !.detail = "error processing text",
                                                   !.error = msg,
                                                   !.passes = r.passes,
                                                   !.escalate = r.escalate,
                                                   !.raw_fast = r.raw_fast]
                  ELSE response' =
                          [base EXCEPT !.status = 200,
                                       !.entities = EntitiesOut(Deduplicate(r.entities_final, <<>>)),
                                       !.model_used = r.model_used,
                                       !.passes = r.passes,
                                       !.escalate = r.escalate,
                                       !.raw_fast = r.raw_fast,
                                       !.raw_used = r.raw_used]
       /\ cache' = ner_cache_after(request, cache)
       /\ UNCHANGED <<models, custom_rulers, now, access_times, max_size, ttl,
                      stamps, lastOp>>

MinConfidences == {0, 5000, 8500}


\* lifespan, lines 58-101: at least one engine loaded, and a ruler for the
\* loaded engines whose BrandProductEntityRuler could be built
InitNer ==
    /\ models \in (SUBSET {FAST, ACCURATE}) \ {{}}
    /\ custom_rulers \in SUBSET models
    /\ response = NoResponse

ExtractEntities ==
    \E request \in [text : Texts, model : {"auto", FAST, ACCURATE, "en_core_web_lg"},
                    min_confidence : MinConfidences,
                    labels : {NoLabels, <<>>, <<"ORG">>}] :
        extract_entities(request) /\ UNCHANGED otherVars

\* ------------------------------------------------- the rest of the service
\* NERRequest, lines 211-215: what FastAPI checks before it calls the handler
NERRequest_valid(request) ==
    /\ TextLength(request.text) >= 1
    /\ TextLength(request.text) <= MAX_LENGTH
    /\ request.min_confidence >= 0
    /\ request.min_confidence <= 10000

\* POST /ner: a request that fails validation is answered 422 and the handler
\* is not called
post_ner(request) ==
    IF NERRequest_valid(request)
    THEN extract_entities(request)
    ELSE /\ response' = [NoResponse EXCEPT !.request = request, !.status = 422,
                                           !.detail = "validation error"]
         /\ UNCHANGED <<models, custom_rulers, now, cacheVars>>

\* lines 428-447: the entities of one doc of the batch; line 431:
\* confidence = min(1.0, len(ent.text) / 10.0)
batch_entities(model_name, text, request) ==
    LET ents == doc_ents(model_name, text)
        all == [i \in DOMAIN ents |->
                   [text |-> ents[i].text, label |-> ents[i].label,
                    start |-> ents[i].start, end |-> ents[i].end,
                    confidence |-> Min(10000, (Len(ents[i].text) * 10000) \div 10)]]
    IN SelectSeq(all, LAMBDA e :
           /\ ~(e.confidence < request.min_confidence)
           /\ ~(Truthy(request.labels) /\ ~InLabels(e.label, request.labels)))

\* extract_entities_batch, lines 407-469: nlp.pipe over all the texts inside
\* one try block
extract_entities_batch(request) ==
    LET base == [NoBatchResponse EXCEPT !.request = request, !.available = models]
    IN /\ IF request.model \notin models
          THEN batch_response' = [base EXCEPT !.status = 400,
                                              !.detail = "model not available"]
          ELSE IF \E i \in DOMAIN request.texts :
                      nlp_raises(request.model, request.texts[i])
          THEN batch_response' = [base EXCEPT !.status = 500,
                                              !.detail = "error processing batch",
                                              !.passes = <<request.model>>]
          ELSE batch_response' =
                  [base EXCEPT !.status = 200,
                               !.results =
                                   [i \in DOMAIN request.texts |->
                                       [entities |-> batch_entities(request.model,
                                                         request.texts[i], request),
                                        model_used |-> request.model]],
                               !.passes = <<request.model>>]
       /\ cache' = ner_cache_after(request, cache)
       /\ UNCHANGED <<models, custom_rulers, now, access_times, max_size, ttl,
                      stamps, lastOp>>

\* POST /ner/batch; BatchNERRequest, lines 224-228: max_items on texts,
\* nothing on a text and nothing on min_confidence
post_ner_batch(request) ==
    IF Len(request.texts) <= MAX_ITEMS
    THEN extract_entities_batch(request)
    ELSE /\ batch_response' = [NoBatchResponse EXCEPT !.request = request,
                                                      !.status = 422,
                                                      !.detail = "validation error"]
         /\ UNCHANGED <<models, custom_rulers, now, cacheVars>>

\* model.get_pipe("ner").labels: the labels an engine was trained on
ner_labels(model_name) ==
    IF model_name = FAST THEN {"ORG", "PERSON"} ELSE {"ORG", "PERSON", "PRODUCT"}

\* get_entity_labels, lines 472-481: the "labels" of the answer,
\* sorted(list(labels))
get_entity_labels ==
    /\ labels_response' =
          SelectSeq(LabelOrder, LAMBDA l : l \in UNION {ner_labels(m) : m \in models})
    /\ UNCHANGED <<models, custom_rulers, now, cacheVars>>

\* lifespan, lines 53-102: each engine loads or not; with none loaded the
\* RuntimeError of line 81 ends the startup; a ruler is built for the loaded
\* engines until one cannot be
Startup ==
    /\ service = "created"
    /\ \E loaded \in SUBSET {FAST, ACCURATE} :
          /\ models' = loaded
          /\ IF loaded = {}
             THEN service' = "failed" /\ custom_rulers' = {}
             ELSE service' = "ready" /\ custom_rulers' \in SUBSET loaded
    /\ UNCHANGED <<now, cacheVars, response, batch_response, labels_response,
                   calls, threads, handler, ruler, probe, gauges>>

\* lifespan, lines 105-108: after the yield
Shutdown ==
    /\ service = "ready"
    /\ models' = {}
    /\ custom_rulers' = {}
    /\ service' = "stopped"
    /\ UNCHANGED <<now, cacheVars, response, batch_response, labels_response,
                   calls, threads, handler, ruler, probe, gauges>>

\* the longest list of texts of a batch request, but for the one over
\* max_items
MaxBatch == 2

\* The handlers are functions of the module: called while the lifespan has
\* not run or has ended, they see models as the module left it.  Each of the
\* three response variables holds the outcome of the last exchange when it
\* was of its kind, and none otherwise.
PostNer ==
    /\ \E request \in [text : {"T0", "T2", "T5", "T9"},
                        model : {"auto", " AUTO ", FAST},
                        min_confidence : {5000, 15000}, labels : {NoLabels}] :
          post_ner(request)
    /\ batch_response' = NoBatchResponse
    /\ labels_response' = NoLabels
    /\ UNCHANGED <<service, calls, threads, handler, ruler, probe, gauges>>

PostNerBatch ==
    /\ \E request \in
          [texts : UNION {[1..n -> {"T0", "T2", "T5"}] : n \in 0..MaxBatch}
                       \cup {[i \in 1..(MAX_ITEMS + 1) |-> "T2"]},
           model : {"auto", FAST}, min_confidence : {5000, 15000},
           labels : {NoLabels}] :
          post_ner_batch(request)
    /\ response' = NoResponse
    /\ labels_response' = NoLabels
    /\ UNCHANGED <<service, calls, threads, handler, ruler, probe, gauges>>

GetLabels ==
    /\ get_entity_labels
    /\ response' = NoResponse
    /\ batch_response' = NoBatchResponse
    /\ UNCHANGED <<service, calls, threads, handler, ruler, probe, gauges>>

\* cache_ner_result, lines 177-179, on the global ner_cache
CacheNerResult ==
    /\ NERCache_set("T2", FAST, 5000, NoLabels, "R1")
    /\ UNCHANGED <<nerVars, otherVars>>

\* ------------------------------------------- cache calls that differ in labels
\* the longest labels list of a cache call
MaxLabels == 2

\* labels=None, and every list of up to MaxLabels labels of the two
KeyRequests ==
    [text : {"a"}, model : {FAST}, min_confidence : {5000},
     labels : {NoLabels} \cup UNION {[1..n -> {"BRAND", "ORG"}] : n \in 0..MaxLabels}]

\* calls: the last call first, then the one before it
Called(op, q, result) ==
    <<[op |-> op, request |-> q, result |-> result]>> \o SubSeq(calls, 1, Min(1, Len(calls)))

KeyGet ==
    \E q \in KeyRequests :
        /\ NERCache_get(q.text, q.model, q.min_confidence, q.labels)
        /\ calls' = Called("get", q, None)
        /\ UNCHANGED <<nerVars, batch_response, labels_response, service, threads,
                       handler, ruler, probe, gauges>>

KeySet ==
    \E q \in KeyRequests, res \in CacheResults :
        /\ NERCache_set(q.text, q.model, q.min_confidence, q.labels, res)
        /\ calls' = Called("set", q, res)
        /\ UNCHANGED <<nerVars, batch_response, labels_response, service, threads,
                       handler, ruler, probe, gauges>>

\* ------------------------------------------ NERCache called from threads
\* NERCache takes no lock.  Each thread runs get and set calls one statement
\* at a time; every statement is one dict operation, which the interpreter
\* makes atomic, and the threads are interleaved between statements.
NumThreads == 2

\* the calls one thread makes
MaxCalls == 2

Threads == 1..NumThreads

ConcKeys ==
    {generate_key(text, FAST, 5000, NoLabels) : text \in {"a", "b"}}

Idle(left) ==
    [pc |-> "idle", key |-> NoKey, result |-> None, oldest |-> NoKey, left |-> left]

At(t, pc) == threads[t].pc = pc

Goto(t, pc) == threads' = [threads EXCEPT ![t].pc = pc]

\* the call returns
Return(t) == threads' = [threads EXCEPT ![t] = Idle(threads[t].left)]

\* the statement raises (KeyError, ValueError): the call ends there
Raise(t) == threads' = [threads EXCEPT ![t].pc = "raised"]

concFrame == <<max_size, ttl, now, stamps, nerVars, batch_response,
               labels_response, service, calls, handler, ruler, probe, gauges>>

\* get is called: key = self._generate_key(...)
BeginGet(t) ==
    /\ At(t, "idle")
    /\ threads[t].left > 0
    /\ \E key \in ConcKeys :
          threads' = [threads EXCEPT ![t] =
                         [Idle(threads[t].left - 1) EXCEPT !.pc = "get_in", !.key = key]]
    /\ UNCHANGED <<cache, access_times, lastOp, concFrame>>

\* line 32: if key in self.cache
GetIn(t) ==
    /\ At(t, "get_in")
    /\ IF DictHas(cache, threads[t].key) THEN Goto(t, "get_ttl") ELSE Return(t)
    /\ UNCHANGED <<cache, access_times, lastOp, concFrame>>

\* line 34: if time.time() - self.access_times[key] < self.ttl
GetTtl(t) ==
    /\ At(t, "get_ttl")
    /\ IF ~DictHas(access_times, threads[t].key) THEN Raise(t)
       ELSE IF IsFresh(DictGet(access_times, threads[t].key), now, ttl)
       THEN Goto(t, "get_touch")
       ELSE Goto(t, "get_del_cache")
    /\ UNCHANGED <<cache, access_times, lastOp, concFrame>>

\* line 35: self.access_times[key] = time.time()
GetTouch(t) ==
    /\ At(t, "get_touch")
    /\ access_times' = DictSet(access_times, threads[t].key, now)
    /\ Goto(t, "get_return")
    /\ UNCHANGED <<cache, lastOp, concFrame>>

\* line 36: return self.cache[key]
GetReturn(t) ==
    /\ At(t, "get_return")
    /\ IF DictHas(cache, threads[t].key) THEN Return(t) ELSE Raise(t)
    /\ UNCHANGED <<cache, access_times, lastOp, concFrame>>

\* line 39: del self.cache[key]
GetDelCache(t) ==
    /\ At(t, "get_del_cache")
    /\ IF DictHas(cache, threads[t].key)
       THEN cache' = DictDel(cache, threads[t].key) /\ Goto(t, "get_del_times")
       ELSE cache' = cache /\ Raise(t)
    /\ UNCHANGED <<access_times, lastOp, concFrame>>

\* line 40: del self.access_times[key], then return None
GetDelTimes(t) ==
    /\ At(t, "get_del_times")
    /\ IF DictHas(access_times, threads[t].key)
       THEN access_times' = DictDel(access_times, threads[t].key) /\ Return(t)
       ELSE access_times' = access_times /\ Raise(t)
    /\ UNCHANGED <<cache, lastOp, concFrame>>

\* set is called: key = self._generate_key(...)
BeginSet(t) ==
    /\ At(t, "idle")
    /\ threads[t].left > 0
    /\ \E key \in ConcKeys :
          threads' = [threads EXCEPT ![t] =
                         [Idle(threads[t].left - 1) EXCEPT !.pc = "set_len", !.key = key,
                                                           !.result = <<"R", t>>]]
    /\ UNCHANGED <<cache, access_times, lastOp, concFrame>>

\* line 49: if len(self.cache) >= self.max_size
SetLen(t) ==
    /\ At(t, "set_len")
    /\ IF IsFull(cache, max_size) THEN Goto(t, "set_min") ELSE Goto(t, "set_cache")
    /\ UNCHANGED <<cache, access_times, lastOp, concFrame>>

\* line 50: oldest_key = min(self.access_times.keys(), ...); ValueError on an
\* empty dict
SetMin(t) ==
    /\ At(t, "set_min")
    /\ IF access_times = <<>> THEN Raise(t)
       ELSE threads' = [threads EXCEPT ![t].pc = "set_del_cache",
                                       ![t].oldest = OldestKey(access_times)]
    /\ UNCHANGED <<cache, access_times, lastOp, concFrame>>

\* line 51: del self.cache[oldest_key]
SetDelCache(t) ==
    /\ At(t, "set_del_cache")
    /\ IF DictHas(cache, threads[t].oldest)
       THEN cache' = DictDel(cache, threads[t].oldest) /\ Goto(t, "set_del_times")
       ELSE cache' = cache /\ Raise(t)
    /\ UNCHANGED <<access_times, lastOp, concFrame>>

\* line 52: del self.access_times[oldest_key]
SetDelTimes(t) ==
    /\ At(t, "set_del_times")
    /\ IF DictHas(access_times, threads[t].oldest)
       THEN access_times' = DictDel(access_times, threads[t].oldest) /\ Goto(t, "set_cache")
       ELSE access_times' = access_times /\ Raise(t)
    /\ UNCHANGED <<cache, lastOp, concFrame>>

\* line 54: self.cache[key] = result.  lastOp keeps this write, the last one
\* made to self.cache.
SetCache(t) ==
    /\ At(t, "set_cache")
    /\ cache' = DictSet(cache, threads[t].key, threads[t].result)
    /\ lastOp' = [NoOp EXCEPT !.op = "set", !.key = threads[t].key,
                              !.val = threads[t].result]
    /\ Goto(t, "set_times")
    /\ UNCHANGED <<access_times, concFrame>>

\* line 55: self.access_times[key] = time.time()
SetTimes(t) ==
    /\ At(t, "set_times")
    /\ access_times' = DictSet(access_times, threads[t].key, now)
    /\ Return(t)
    /\ UNCHANGED <<cache, lastOp, concFrame>>

\* time.time() moves on between statements
ConcTick ==
    /\ now < MaxTime
    /\ now' = now + 1
    /\ UNCHANGED <<cacheVars, nerVars, batch_response, labels_response, service,
                   calls, threads, handler, ruler, probe, gauges>>

ThreadStep(t) ==
    \/ BeginGet(t) \/ GetIn(t) \/ GetTtl(t) \/ GetTouch(t) \/ GetReturn(t)
    \/ GetDelCache(t) \/ GetDelTimes(t)
    \/ BeginSet(t) \/ SetLen(t) \/ SetMin(t) \/ SetDelCache(t) \/ SetDelTimes(t)
    \/ SetCache(t) \/ SetTimes(t)

\* ------------------------------------------ an auto request, step by step
\* extract_entities for model='auto', lines 326-404, one statement group at a
\* time.  handler.log lists what has been started: "fast" and "accurate" for
\* the process_with_model calls, "decide" for the evaluation of lines 336-348.

\* next_pc that goes back to the decision after the accurate pass
next_pc_reevaluates(pc, use_sm, use_trf, escalate, raised) ==
    CASE pc = "begin" ->
            IF use_sm THEN "fast" ELSE IF use_trf THEN "accurate" ELSE "except"
      [] pc = "fast" -> IF raised THEN "except" ELSE "decide"
      [] pc = "decide" -> IF escalate THEN "accurate" ELSE "dedup"
      [] pc = "accurate" -> IF raised THEN "except" ELSE "decide"
      [] OTHER -> "done"

\* the control flow of lines 326-370: what the handler does next
next_pc(pc, use_sm, use_trf, escalate, raised) ==
    CASE pc = "begin" ->
            IF use_sm THEN "fast" ELSE IF use_trf THEN "accurate" ELSE "except"
      [] pc = "fast" -> IF raised THEN "except" ELSE "decide"
      [] pc = "decide" -> IF escalate THEN "accurate" ELSE "dedup"
      [] pc = "accurate" -> IF raised THEN "except" ELSE "dedup"
      [] OTHER -> "done"

NoPass == [raised |-> FALSE, ran |-> FALSE, collected |-> <<>>, raw |-> <<>>]

autoFrame == <<cacheVars, now, models, custom_rulers, batch_response,
               labels_response, service, calls, threads, ruler, probe, gauges>>

\* lines 311-333: the selector is 'auto', use_sm and use_trf are read
AutoBegin ==
    /\ handler.pc \in {"idle", "done"}
    /\ \E request \in [text : Texts, model : {"auto", " AUTO "},
                        min_confidence : MinConfidences, labels : {NoLabels}] :
          /\ requested_model(request.model) = "auto"
          /\ handler' = [pc |-> next_pc("begin", FAST \in models, ACCURATE \in models,
                                        FALSE, FALSE),
                         request |-> request, sm |-> NoPass, trf |-> NoPass,
                         escalate |-> FALSE, model_used |-> None, log |-> <<>>]
    /\ response' = NoResponse
    /\ UNCHANGED autoFrame

\* line 335: sm_entities = process_with_model('en_core_web_sm')
AutoFastPass ==
    /\ handler.pc = "fast"
    /\ LET r == process_with_model(FAST, handler.request)
       IN handler' = [handler EXCEPT
                         !.pc = next_pc("fast", TRUE, ACCURATE \in models, FALSE, r.raised),
                         !.sm = r,
                         !.log = Append(handler.log, "fast")]
    /\ UNCHANGED <<response, autoFrame>>

\* lines 336-357: avg_conf, low_conf_exists and escalate; without escalation
\* the fast list is the result
AutoDecide ==
    /\ handler.pc = "decide"
    /\ LET escalate == Escalate(handler.request, handler.sm.collected, ACCURATE \in models)
       IN handler' = [handler EXCEPT
                         !.pc = next_pc("decide", TRUE, ACCURATE \in models, escalate, FALSE),
                         !.escalate = escalate,
                         !.model_used = IF escalate THEN None ELSE FAST,
                         !.log = Append(handler.log, "decide")]
    /\ UNCHANGED <<response, autoFrame>>

\* lines 351-353 and 361-362: process_with_model('en_core_web_trf')
AutoAccuratePass ==
    /\ handler.pc = "accurate"
    /\ LET r == process_with_model(ACCURATE, handler.request)
       IN handler' = [handler EXCEPT
                         !.pc = next_pc("accurate", FAST \in models, TRUE,
                                        handler.escalate, r.raised),
                         !.trf = r,
                         !.model_used = ACCURATE,
                         !.log = Append(handler.log, "accurate")]
    /\ UNCHANGED <<response, autoFrame>>

\* the engines of the passes started, in order
PassesOf(log) ==
    [i \in DOMAIN SelectSeq(log, LAMBDA x : x # "decide") |->
        IF SelectSeq(log, LAMBDA x : x # "decide")[i] = "fast" THEN FAST ELSE ACCURATE]

\* lines 372-400: deduplication and the NERResponse
AutoReturn ==
    /\ handler.pc = "dedup"
    /\ LET used == IF handler.model_used = ACCURATE THEN handler.trf ELSE handler.sm
       IN response' = [NoResponse EXCEPT
                          !.request = handler.request,
                          !.available = models,
                          !.status = 200,
                          !.entities = EntitiesOut(Deduplicate(used.collected, <<>>)),
                          !.model_used = handler.model_used,
                          !.passes = PassesOf(handler.log),
                          !.escalate = handler.escalate,
                          !.raw_fast = handler.sm.raw,
                          !.raw_used = used.raw]
    /\ handler' = [handler EXCEPT !.pc = "done"]
    /\ UNCHANGED autoFrame

\* lines 402-404: the except block
AutoExcept ==
    /\ handler.pc = "except"
    /\ \E msg \in IF handler.log = <<>> THEN StrNoModels ELSE {"engine error"} :
          response' = [NoResponse EXCEPT
                          !.request = handler.request,
                          !.available = models,
                          !.status = 500,
                          !.detail = "error processing text",
                          !.error = msg,
                          !.passes = PassesOf(handler.log),
                          !.escalate = handler.escalate,
                          !.raw_fast = handler.sm.raw]
    /\ handler' = [handler EXCEPT !.pc = "done"]
    /\ UNCHANGED autoFrame

\* ------------------------------------------------ the key as a string
\* The f-string of _generate_key, character by character: a string is the
\* sequence of its characters.

\* the longest text and the longest model name of a key
MaxKeyLen == 2

\* the strings over an alphabet with the separator of the f-string in it
KeyStrings == UNION {[1..n -> {"a", ":"}] : n \in 1..MaxKeyLen}

\* the last w digits of f
RECURSIVE PadStr(_, _)
PadStr(f, w) ==
    IF w = 0 THEN <<>>
    ELSE PadStr(f \div 10, w - 1)
             \o <<<<"0", "1", "2", "3", "4", "5", "6", "7", "8", "9">>[(f % 10) + 1]>>

\* the digits of n
RECURSIVE IntStr(_)
IntStr(n) == IF n < 10 THEN PadStr(n, 1) ELSE IntStr(n \div 10) \o PadStr(n % 10, 1)

RECURSIVE FracStr(_, _)
FracStr(f, w) == IF w > 1 /\ f % 10 = 0 THEN FracStr(f \div 10, w - 1) ELSE PadStr(f, w)

\* the items of str() of a list of labels: 'BRAND', 'ORG'
RECURSIVE ListItems(_)
ListItems(l) ==
    IF l = <<>> THEN <<>>
    ELSE LET chars == CASE Head(l) = "BRAND" -> <<"B", "R", "A", "N", "D">>
                        [] Head(l) = "ORG" -> <<"O", "R", "G">>
                        [] Head(l) = "PERSON" -> <<"P", "E", "R", "S", "O", "N">>
                        [] Head(l) = "PRODUCT" -> <<"P", "R", "O", "D", "U", "C", "T">>
         IN <<"'">> \o chars \o <<"'">>
                \o (IF Len(l) > 1 THEN <<",", " ">> ELSE <<>>) \o ListItems(Tail(l))

\* key_data of _generate_key (line 25); str() of a float given in
\* ten-thousandths: 5000 is "0.5", 10000 is "1.0"; str() of a list: [] and
\* ['BRAND', 'ORG']
key_data(text, model, min_confidence, labels) ==
    text \o <<":">> \o model \o <<":">>
        \o IntStr(min_confidence \div 10000) \o <<".">> \o FracStr(min_confidence % 10000, 4)
        \o <<":">> \o <<"[">> \o ListItems(SortedLabels(labels)) \o <<"]">>

\* probe: the last call of _generate_key and the one before it, each with
\* what the key is made of (fields) and key_data
GenerateKey ==
    \E text \in KeyStrings, model \in KeyStrings, min_confidence \in {5000, 10000},
       labels \in {NoLabels, <<"ORG", "BRAND">>} :
        /\ probe' = [fn |-> "generate_key",
                     prev |-> IF probe.fn = "generate_key" THEN probe.last
                              ELSE [fields |-> <<>>, key_data |-> <<>>],
                     last |-> [fields |-> <<text, model, min_confidence,
                                            SortedLabels(labels)>>,
                               key_data |-> key_data(text, model, min_confidence,
                                                     labels)]]
        /\ UNCHANGED <<cacheVars, now, nerVars, batch_response, labels_response,
                       service, calls, threads, handler, ruler, gauges>>

\* ------------------------------------------- BrandProductEntityRuler
\* A word is one string; what Python's str methods say about the words that
\* occur is tabled here.

\* str.lower()
lower(w) ==
    CASE w = "Google" -> "google"
      [] w = "Cloud" -> "cloud"
      [] w = "Use" -> "use"
      [] w = "Inc" -> "inc"
      [] w = "Microsoft" -> "microsoft"
      [] w = "Azure" -> "azure"
      [] w = "Buy" -> "buy"
      [] w = "Pineapple" -> "pineapple"
      [] w = "Vision" -> "vision"
      [] w = "Pro" -> "pro"
      [] w = "ACME" -> "acme"
      [] w = "@Acme" -> "@acme"
      [] OTHER -> w

\* len()
WordLen(w) ==
    LET l == lower(w)
    IN CASE l \in {","} -> 1
         [] l \in {"pro", "use", "inc", "buy", "now", "try"} -> 3
         [] l \in {"acme", "labs"} -> 4
         [] l \in {"cloud", "rocks", "azure", "@acme"} -> 5
         [] l \in {"google", "gemini", "vision"} -> 6
         [] l \in {"microsoft", "pineapple"} -> 9

\* str.isalnum()
isalnum(w) == lower(w) \notin {",", "@acme"}

\* str.istitle() and str.isupper() of the words of a span joined by blanks:
\* the words with an upper-case first letter and lower-case letters after it,
\* and the words in upper case; "," has no cased character
istitle(words) ==
    LET title == {"Google", "Cloud", "Use", "Inc", "Microsoft", "Azure", "Buy",
                  "Pineapple", "Vision", "Pro", "@Acme"}
    IN /\ \E i \in DOMAIN words : words[i] \in title
       /\ \A i \in DOMAIN words : words[i] \in title \cup {","}

isupper(words) ==
    /\ \E i \in DOMAIN words : words[i] \in {"ACME"}
    /\ \A i \in DOMAIN words : words[i] \in {"ACME", ","}

\* brand in entity_text.lower() for a brand of line 135; pineapple has apple
\* in it
has_known_brand(words) ==
    \E i \in DOMAIN words :
        lower(words[i]) \in {"gemini", "google", "microsoft", "apple", "pineapple"}

\* token patterns: {"LOWER": word} and {"TEXT": {"REGEX": ".*word.*"}}
LOWER(word) == [attr |-> "LOWER", value |-> word]

REGEX(word) == [attr |-> "REGEX", value |-> word]

\* load_custom_patterns without a patterns file: lines 34-60
DefaultBrandPatterns ==
    <<[label |-> "BRAND", pattern |-> <<LOWER("gemini")>>],
      [label |-> "BRAND", pattern |-> <<LOWER("contentstack")>>],
      [label |-> "BRAND", pattern |-> <<LOWER("google")>>],
      [label |-> "BRAND", pattern |-> <<LOWER("microsoft")>>],
      [label |-> "BRAND", pattern |-> <<LOWER("apple")>>],
      [label |-> "BRAND", pattern |-> <<LOWER("amazon")>>],
      [label |-> "BRAND", pattern |-> <<LOWER("netflix")>>],
      [label |-> "BRAND", pattern |-> <<LOWER("spotify")>>],
      [label |-> "BRAND", pattern |-> <<LOWER("adobe")>>],
      [label |-> "BRAND", pattern |-> <<LOWER("salesforce")>>]>>

DefaultProductPatterns ==
    <<[label |-> "PRODUCT", pattern |-> <<LOWER("gemini"), LOWER("pro")>>],
      [label |-> "PRODUCT", pattern |-> <<LOWER("gemini"), LOWER("flash")>>],
      [label |-> "PRODUCT", pattern |-> <<LOWER("chatgpt")>>],
      [label |-> "PRODUCT", pattern |-> <<LOWER("gpt"), LOWER("4")>>],
      [label |-> "PRODUCT", pattern |-> <<LOWER("gpt"), LOWER("3.5")>>],
      [label |-> "PRODUCT", pattern |-> <<LOWER("claude")>>],
      [label |-> "PRODUCT", pattern |-> <<LOWER("midjourney")>>],
      [label |-> "PRODUCT", pattern |-> <<LOWER("dall-e")>>],
      [label |-> "PRODUCT", pattern |-> <<LOWER("photoshop")>>],
      [label |-> "PRODUCT", pattern |-> <<LOWER("illustrator")>>],
      [label |-> "PRODUCT", pattern |-> <<LOWER("premiere"), LOWER("pro")>>],
      [label |-> "PRODUCT", pattern |-> <<LOWER("after"), LOWER("effects")>>]>>

\* A matcher key f"BRAND_{word}", f"PRODUCT_{n}" or f"CUSTOM_{word}_{n}" is
\* [kind, word, n]: kind is the part before the first '_'.

\* Matcher.add(key, [pattern], on_match=create_entity_callback(label)): the
\* pattern is added to the patterns of the key, the callback of the key is
\* replaced
Matcher_add(matcher, key, pattern, label) ==
    DictSet(matcher, key,
            [patterns |-> IF DictHas(matcher, key)
                          THEN Append(DictGet(matcher, key).patterns, pattern)
                          ELSE <<pattern>>,
             label |-> label])

\* lines 65-70 from brand pattern i on: pattern['pattern'][0]['LOWER'] is a
\* KeyError for a first token pattern without 'LOWER'
RECURSIVE add_brands(_, _, _)
add_brands(matcher, brand_patterns, i) ==
    IF i > Len(brand_patterns) THEN [raised |-> None, matcher |-> matcher]
    ELSE LET pattern == brand_patterns[i].pattern
         IN IF pattern[1].attr # "LOWER"
            THEN [raised |-> "KeyError", matcher |-> matcher]
            ELSE add_brands(
                     Matcher_add(matcher,
                                 [kind |-> "BRAND", word |-> pattern[1].value, n |-> 0],
                                 pattern, "BRAND"),
                     brand_patterns, i + 1)

\* lines 73-78 from product pattern i on; enumerate() counts from 0
RECURSIVE add_products(_, _, _)
add_products(matcher, product_patterns, i) ==
    IF i > Len(product_patterns) THEN matcher
    ELSE add_products(
             Matcher_add(matcher, [kind |-> "PRODUCT", word |-> "", n |-> i - 1],
                         product_patterns[i].pattern, "PRODUCT"),
             product_patterns, i + 1)

\* setup_matchers: what it raises and the matcher it leaves
setup_matchers(r) ==
    LET brands == add_brands(r.matcher, r.brand_patterns, 1)
    IN IF brands.raised # None THEN brands
       ELSE [raised |-> None,
             matcher |-> add_products(brands.matcher, r.product_patterns, 1)]

\* __init__: lines 14-21
NewRuler ==
    LET r == [brand_patterns |-> DefaultBrandPatterns,
              product_patterns |-> DefaultProductPatterns,
              matcher |-> <<>>]
    IN [r EXCEPT !.matcher = setup_matchers(r).matcher]

\* add_custom_pattern: len(self.matcher) is the number of keys
add_custom_pattern(r, label, pattern) ==
    [r EXCEPT !.matcher =
        Matcher_add(r.matcher,
                    [kind |-> "CUSTOM", word |-> label, n |-> Len(r.matcher)],
                    pattern, label)]

\* text_to_pattern of a text given as its words, text.lower().split()
RECURSIVE text_to_pattern(_)
text_to_pattern(words) ==
    IF words = <<>> THEN <<>>
    ELSE LET word == lower(Head(words))
         IN <<IF isalnum(word) THEN LOWER(word) ELSE REGEX(word)>>
                \o text_to_pattern(Tail(words))

\* lines 159-174: the patterns appended for the entities from entity i on
RECURSIVE extract_patterns(_, _, _)
extract_patterns(r, entities, i) ==
    IF i > Len(entities) THEN r
    ELSE LET entity == entities[i]
             pattern == text_to_pattern(entity.text)
             item == [label |-> entity.label, pattern |-> pattern]
         IN extract_patterns(
                IF entity.label \in {"BRAND", "PRODUCT"} /\ pattern # <<>>
                THEN IF entity.label = "BRAND"
                     THEN [r EXCEPT !.brand_patterns = Append(@, item)]
                     ELSE [r EXCEPT !.product_patterns = Append(@, item)]
                ELSE r,
                entities, i + 1)

\* the file that is not there
NoFile == <<[text |-> <<"None">>, label |-> "None"]>>

\* load_training_data: what it raises and the ruler it leaves
load_training_data(r, training_data) ==
    IF training_data = NoFile THEN [raised |-> None, ruler |-> r]
    ELSE LET extracted == extract_patterns(r, training_data, 1)
             setup == setup_matchers(extracted)
         IN [raised |-> setup.raised,
             ruler |-> [extracted EXCEPT !.matcher = setup.matcher]]

\* a token of a doc: its text and whether a blank follows it
Tok(w, ws) == [text |-> w, ws |-> ws]

\* self.nlp(text): the tokens of the texts that are processed
nlp(text) ==
    CASE text = "Google Cloud" -> <<Tok("Google", TRUE), Tok("Cloud", FALSE)>>
      [] text = "Use Google" -> <<Tok("Use", TRUE), Tok("Google", FALSE)>>
      [] text = "Google, Inc" ->
            <<Tok("Google", FALSE), Tok(",", TRUE), Tok("Inc", FALSE)>>
      [] text = "gemini pro rocks" ->
            <<Tok("gemini", TRUE), Tok("pro", TRUE), Tok("rocks", FALSE)>>
      [] text = "Microsoft Azure" -> <<Tok("Microsoft", TRUE), Tok("Azure", FALSE)>>
      [] text = "Buy Pineapple Vision Pro now" ->
            <<Tok("Buy", TRUE), Tok("Pineapple", TRUE), Tok("Vision", TRUE),
              Tok("Pro", TRUE), Tok("now", FALSE)>>
      [] text = "try @acme labs now" ->
            <<Tok("try", TRUE), Tok("@acme", TRUE), Tok("labs", TRUE),
              Tok("now", FALSE)>>
      [] text = "try acme labs now" ->
            <<Tok("try", TRUE), Tok("acme", TRUE), Tok("labs", TRUE),
              Tok("now", FALSE)>>
      [] text = "ACME rocks" -> <<Tok("ACME", TRUE), Tok("rocks", FALSE)>>

\* doc[i].idx, i counted from 0: the offset of the first character of token i
RECURSIVE idx(_, _)
idx(doc, i) ==
    IF i = 0 THEN 0
    ELSE idx(doc, i - 1) + WordLen(doc[i].text) + (IF doc[i].ws THEN 1 ELSE 0)

\* doc[start:end], as its words
span_words(doc, start, end) == [j \in 1..(end - start) |-> doc[start + j].text]

\* a pattern against the window that begins at token start, token pattern by
\* token pattern; the words here contain no other word with punctuation, so
\* ".*word.*" finds only the word itself
pattern_matches(doc, start, pattern) ==
    /\ start + Len(pattern) <= Len(doc)
    /\ \A j \in DOMAIN pattern :
          IF pattern[j].attr = "LOWER"
          THEN lower(doc[start + j].text) = pattern[j].value
          ELSE doc[start + j].text = pattern[j].value

\* self.matcher(doc): one match for a key and a window, however many patterns
\* of the key match it
Matches(matcher, doc) ==
    UNION {{[key |-> matcher[k].k, start |-> w[2],
             end |-> w[2] + Len(matcher[k].v.patterns[w[1]])] :
               w \in {w \in (DOMAIN matcher[k].v.patterns) \X (0..(Len(doc) - 1)) :
                         pattern_matches(doc, w[2], matcher[k].v.patterns[w[1]])}} :
           k \in DOMAIN matcher}

\* the callbacks of lines 80-86: doc.ents cannot take a span over a token that
\* is in another span of doc.ents
callback_raises(matches, ents) ==
    LET Overlap(a, b) == a.start < b.end /\ b.start < a.end
    IN \/ \E m \in matches, e \in ents : Overlap(m, e)
       \/ \E m1 \in matches, m2 \in matches : m1 # m2 /\ Overlap(m1, m2)

\* calculate_confidence without the min of line 138
calculate_confidence_uncapped(doc, start, end, label) ==
    LET entity_text == span_words(doc, start, end)
    IN 8000 + (IF end - start > 2 THEN 1000 ELSE 0)
            + (IF istitle(entity_text) \/ isupper(entity_text) THEN 1000 ELSE 0)
            + (IF label = "BRAND" /\ has_known_brand(entity_text) THEN 1000 ELSE 0)

\* calculate_confidence: lines 120-138
calculate_confidence(doc, start, end, label) ==
    LET entity_text == span_words(doc, start, end)
    IN Min(10000,
           8000 + (IF end - start > 2 THEN 1000 ELSE 0)
                + (IF istitle(entity_text) \/ isupper(entity_text) THEN 1000 ELSE 0)
                + (IF label = "BRAND" /\ has_known_brand(entity_text) THEN 1000 ELSE 0))

\* the matches in the order of their windows; they do not overlap when the
\* callbacks have not raised
RECURSIVE ordered(_)
ordered(matches) ==
    IF matches = {} THEN <<>>
    ELSE LET m == CHOOSE x \in matches : \A y \in matches : x.start <= y.start
         IN <<m>> \o ordered(matches \ {m})

\* process_text on a ruler: what it raises, the matches and the candidates.
\* doc.ents of self.nlp(text), as token windows: the engine finds Microsoft.
\* Lines 102-116 make the candidate of a match; doc[end] is an IndexError for
\* end = len(doc).
process_text_doc(r, text) ==
    LET doc == nlp(text)
        engine_ents == IF text = "Microsoft Azure" THEN {[start |-> 0, end |-> 1]}
                       ELSE {}
        matches == Matches(r.matcher, doc)
        found == ordered(matches)
    IN IF callback_raises(matches, engine_ents)
       THEN [raised |-> "ValueError", matches |-> <<>>, entities |-> <<>>]
       ELSE IF \E m \in matches : m.end = Len(doc)
       THEN [raised |-> "IndexError", matches |-> found, entities |-> <<>>]
       ELSE [raised |-> None, matches |-> found,
             entities |->
                 [i \in DOMAIN found |->
                     LET m == found[i]
                         label == m.key.kind
                     IN [text |-> span_words(doc, m.start, m.end),
                         label |-> label,
                         start |-> idx(doc, m.start),
                         end |-> idx(doc, m.end),
                         confidence |-> calculate_confidence(doc, m.start, m.end, label),
                         source |-> "custom_ruler"]]]

\* add_custom_pattern is called MaxCustom times at most
MaxCustom == 1

\* load_training_data is called while fewer than MaxTrained patterns have come
\* from training data
MaxTrained == 3

rulerFrame == <<cacheVars, now, nerVars, batch_response, labels_response, service,
                calls, threads, handler, gauges>>

\* a pattern added at runtime with a label
AddCustomPattern ==
    \E label \in {"ORG", "BRAND"},
       pattern \in {<<LOWER("acme")>>, <<LOWER("acme"), LOWER("labs")>>} :
        /\ Cardinality({k \in DictKeys(ruler.matcher) : k.kind = "CUSTOM"}) < MaxCustom
        /\ ruler' = add_custom_pattern(ruler, label, pattern)
        /\ probe' = [fn |-> "add_custom_pattern", label |-> label, pattern |-> pattern,
                     n |-> Len(ruler.matcher)]
        /\ UNCHANGED rulerFrame

\* a training file loaded: no file, or one of two files
LoadTrainingData ==
    \E training_data \in
          {NoFile,
           <<[text |-> <<"Pineapple", "Vision", "Pro">>, label |-> "BRAND"],
             [text |-> <<"@Acme", "labs">>, label |-> "PRODUCT"],
             [text |-> <<"Azure">>, label |-> "ORG"],
             [text |-> <<>>, label |-> "BRAND"]>>,
           <<[text |-> <<"@Acme", "labs">>, label |-> "BRAND"],
             [text |-> <<"acme", "labs">>, label |-> "PRODUCT"]>>} :
        /\ Len(ruler.brand_patterns) + Len(ruler.product_patterns)
              < Len(DefaultBrandPatterns) + Len(DefaultProductPatterns) + MaxTrained
        /\ LET loaded == load_training_data(ruler, training_data)
           IN /\ ruler' = loaded.ruler
              /\ probe' = [fn |-> "load_training_data", training_data |-> training_data,
                           raised |-> loaded.raised]
        /\ UNCHANGED rulerFrame

ProcessText ==
    \E text \in {"Google Cloud", "Use Google", "Google, Inc", "gemini pro rocks",
                 "Microsoft Azure", "Buy Pineapple Vision Pro now",
                 "try @acme labs now", "try acme labs now", "ACME rocks"} :
        /\ probe' = [fn |-> "process_text", text |-> text,
                     result |-> process_text_doc(ruler, text)]
        /\ UNCHANGED <<ruler, rulerFrame>>

\* calculate_entity_confidence of app.py on an entity text of 0 to 12
\* characters
CalculateEntityConfidence ==
    \E entity_text \in UNION {[1..n -> {"x"}] : n \in 0..12} :
        /\ probe' = [fn |-> "calculate_entity_confidence", entity_text |-> entity_text,
                     confidence |-> calculate_entity_confidence(entity_text)]
        /\ UNCHANGED <<ruler, rulerFrame>>

\* ------------------------------------------------------ POST /metrics/report
\* A payload is a dict (FastAPI answers 422 to any other body).  Its fields,
\* as far as the handler reads them:
\*   state_is_dict  payload['state'] is a dict
\*   open           'open' of state: "absent", or the truth of its value
\*   pending        'pending' of state: "absent", "None", "bad" (int() raises)
\*                  or "int", with pending_value
\*   failures       the first truthy one of stats' failure keys: "absent",
\*                  "zero" (falsy, so None is left), "bad" (float() raises) or
\*                  "num", with failures_value

\* metrics_report that also empties the module's models
metrics_report_unloads(payload, app) == [app EXCEPT !.models = {}]

\* metrics_report, lines 504-557, on the globals of the module: the three
\* gauges, models, custom_rulers and ner_cache
metrics_report(payload, app) ==
    IF ~payload.state_is_dict THEN app
    ELSE [app EXCEPT
            !.gauges.open = CASE payload.open = "True" -> 1
                              [] payload.open = "False" -> 0
                              [] OTHER -> @,
            !.gauges.pending = CASE payload.pending = "int" -> payload.pending_value
                                 [] payload.pending = "None" -> 0
                                 [] OTHER -> @,
            !.gauges.failures = IF payload.failures = "num"
                                THEN payload.failures_value ELSE @]

\* the handler returns {"ok": True}
MetricsReport ==
    \E payload \in [state_is_dict : BOOLEAN, open : {"absent", "True", "False"},
                    pending : {"absent", "None", "bad", "int"}, pending_value : {2},
                    failures : {"absent", "zero", "bad", "num"}, failures_value : {3}] :
        LET after == metrics_report(payload,
                                    [gauges |-> gauges, models |-> models,
                                     custom_rulers |-> custom_rulers, cache |-> cache])
        IN /\ gauges' = after.gauges
           /\ models' = after.models
           /\ custom_rulers' = after.custom_rulers
           /\ cache' = after.cache
           /\ probe' = [fn |-> "metrics_report", ok |-> TRUE]
           /\ UNCHANGED <<access_times, max_size, ttl, now, stamps, lastOp, response,
                          batch_response, labels_response, service, calls, threads,
                          handler, ruler>>

\* no batch request, no GET /labels and no cache call in steps yet; the
\* application has started
InitOther ==
    /\ batch_response = NoBatchResponse
    /\ labels_response = NoLabels
    /\ service = "ready"
    /\ calls = <<>>
    /\ threads = <<>>
    /\ handler = NoHandler
    /\ ruler = NoRuler
    /\ probe = NoProbe
    /\ gauges = [open |-> 0, pending |-> 0, failures |-> 0]

InitCacheSpec ==
    /\ InitCache
    /\ now = 0
    /\ models = {FAST}
    /\ custom_rulers = {}
    /\ response = NoResponse
    /\ InitOther

NextCache == CacheGet \/ CacheSet \/ CacheClear \/ Tick

SpecCache == InitCacheSpec /\ [][NextCache]_vars

\* the global ner_cache = NERCache(max_size=..., ttl=...) of the service
InitNerSpec ==
    /\ InitCache
    /\ max_size = MaxSizeBound
    /\ now = 0
    /\ InitNer
    /\ InitOther

NextNer == ExtractEntities

SpecNer == InitNerSpec /\ [][NextNer]_vars

\* a NERCache of one entry, called with requests that differ in labels only
InitKey ==
    /\ InitCache
    /\ max_size = 1
    /\ now = 0
    /\ models = {FAST}
    /\ custom_rulers = {}
    /\ response = NoResponse
    /\ InitOther

NextKey == KeyGet \/ KeySet

SpecKey == InitKey /\ [][NextKey]_vars

\* one NERCache, just built, shared by the threads
InitConc ==
    /\ InitCache
    /\ now = 0
    /\ models = {FAST}
    /\ custom_rulers = {}
    /\ response = NoResponse
    /\ batch_response = NoBatchResponse
    /\ labels_response = NoLabels
    /\ service = "ready"
    /\ calls = <<>>
    /\ threads = [t \in Threads |-> Idle(MaxCalls)]
    /\ handler = NoHandler
    /\ ruler = NoRuler
    /\ probe = NoProbe
    /\ gauges = [open |-> 0, pending |-> 0, failures |-> 0]

NextConc == (\E t \in Threads : ThreadStep(t)) \/ ConcTick

SpecConc == InitConc /\ [][NextConc]_vars

\* the service after startup, handling auto requests one at a time
InitAuto ==
    /\ InitCache
    /\ max_size = MaxSizeBound
    /\ now = 0
    /\ InitNer
    /\ InitOther

NextAuto ==
    AutoBegin \/ AutoFastPass \/ AutoDecide \/ AutoAccuratePass \/ AutoReturn
        \/ AutoExcept

SpecAuto == InitAuto /\ [][NextAuto]_vars

\* _generate_key called with texts and model names over KeyChars
InitKeyData ==
    /\ InitCache
    /\ max_size = MaxSizeBound
    /\ now = 0
    /\ models = {FAST}
    /\ custom_rulers = {}
    /\ response = NoResponse
    /\ InitOther

NextKeyData == GenerateKey

SpecKeyData == InitKeyData /\ [][NextKeyData]_vars

\* a ruler as __init__ leaves it, then patterns added, training data loaded
\* and texts processed
InitRuler ==
    /\ InitCache
    /\ max_size = MaxSizeBound
    /\ now = 0
    /\ models = {FAST}
    /\ custom_rulers = {FAST}
    /\ response = NoResponse
    /\ batch_response = NoBatchResponse
    /\ labels_response = NoLabels
    /\ service = "ready"
    /\ calls = <<>>
    /\ threads = <<>>
    /\ handler = NoHandler
    /\ ruler = NewRuler
    /\ probe = NoProbe
    /\ gauges = [open |-> 0, pending |-> 0, failures |-> 0]

NextRuler ==
    AddCustomPattern \/ LoadTrainingData \/ ProcessText \/ CalculateEntityConfidence

SpecRuler == InitRuler /\ [][NextRuler]_vars

\* the service after startup: reports of the gateway and POST /ner requests
InitMetrics ==
    /\ InitCache
    /\ max_size = MaxSizeBound
    /\ now = 0
    /\ InitNer
    /\ InitOther

NextMetrics == MetricsReport \/ PostNer

SpecMetrics == InitMetrics /\ [][NextMetrics]_vars

\* the module as imported: models = {} and custom_rulers = {} (lines 25-26),
\* the global ner_cache empty, the lifespan not yet run
InitApi ==
    /\ InitCache
    /\ max_size = MaxSizeBound
    /\ now = 0
    /\ models = {}
    /\ custom_rulers = {}
    /\ response = NoResponse
    /\ batch_response = NoBatchResponse
    /\ labels_response = NoLabels
    /\ service = "created"
    /\ calls = <<>>
    /\ threads = <<>>
    /\ handler = NoHandler
    /\ ruler = NoRuler
    /\ probe = NoProbe
    /\ gauges = [open |-> 0, pending |-> 0, failures |-> 0]

NextApi ==
    Startup \/ Shutdown \/ PostNer \/ PostNerBatch \/ GetLabels \/ CacheNerResult

SpecApi == InitApi /\ [][NextApi]_vars

\* ---------------------------------------------------------- NERCache claims

\* C1: with max_size >= 1, after any sequence of get, set and clear calls the
\* cache holds at most max_size entries (in both of its dicts).
C1_SizeBounded ==
    /\ Len(cache) <= max_size
    /\ Cardinality(DictKeys(access_times)) <= max_size

C1_Witness ==
    /\ lastOp.op = "set"
    /\ lastOp.evicted # NoKey
    /\ Len(cache) = max_size

\* C2 (as claimed): a get of f is a hit only if less than ttl has passed since
\* the most recent set of f; successful gets in between do not extend the life
\* of the entry.
C2_HitOnlyWithinTtlOfSet ==
    (lastOp.op = "get" /\ lastOp.val # None) => lastOp.age < ttl

\* C3: a get of f that directly follows set(f, R), ttl or more later, misses
\* and leaves f resident in neither dict.
C3_ExpiredGetMissesAndRemoves ==
    (lastOp.op = "get" /\ lastOp.set_val # None /\ lastOp.age >= ttl)
        => /\ lastOp.val = None
           /\ ~DictHas(cache, lastOp.key)
           /\ ~DictHas(access_times, lastOp.key)

C3_Witness ==
    /\ lastOp.op = "get"
    /\ lastOp.set_val # None
    /\ lastOp.age >= ttl
    /\ lastOp.val = None

\* C4: a get of f that directly follows set(f, R), less than ttl later,
\* returns exactly R.
C4_RoundTrip ==
    (lastOp.op = "get" /\ lastOp.set_val # None /\ lastOp.age < ttl)
        => lastOp.val = lastOp.set_val

C4_Witness ==
    /\ lastOp.op = "get"
    /\ lastOp.set_val = "R2"
    /\ lastOp.val = "R2"
    /\ lastOp.age > 0
    /\ lastOp.age < ttl
    /\ Len(cache) = max_size

LastAccessed(key) == DictGet(stamps, key).last_accessed_at

\* C5: a set of a key that is not resident, made when the cache holds max_size
\* entries, removes exactly one entry, one whose last access (latest set or
\* successful get) is the earliest, and leaves max_size entries.
C5_EvictsLeastRecentlyAccessed ==
    [][\A q \in CacheRequests, res \in CacheResults :
          LET key == generate_key(q.text, q.model, q.min_confidence, q.labels)
          IN (/\ Len(cache) = max_size
              /\ ~DictHas(cache, key)
              /\ NERCache_set(q.text, q.model, q.min_confidence, q.labels, res))
                 => \E old \in DictKeys(cache) :
                       /\ DictKeys(cache') = (DictKeys(cache) \ {old}) \cup {key}
                       /\ DictKeys(access_times') = DictKeys(cache')
                       /\ \A k \in DictKeys(cache) :
                              LastAccessed(old) <= LastAccessed(k)
                       /\ Len(cache') = max_size]_vars

C5_Witness ==
    /\ lastOp.op = "set"
    /\ lastOp.evicted # NoKey
    /\ lastOp.evicted # lastOp.key
    /\ ~DictHas(cache, lastOp.evicted)
    /\ Len(cache) = max_size
    /\ max_size >= 2
    /\ \E i \in DOMAIN stamps : stamps[i].v.last_accessed_at > stamps[i].v.inserted_at

\* ---------------------------------------------------- extract_entities claims

\* the Span Key (text, start, end) of a candidate or of a returned entity
KeyOf(e) == <<e.text, e.start, e.end>>

Answered == response.status = 200

\* C6: the entities of a response hold no two entries with the same Span Key.
C6_NoDuplicateSpanKeys ==
    Answered =>
        \A i, j \in DOMAIN response.entities :
            i # j => KeyOf(response.entities[i]) # KeyOf(response.entities[j])

C6_Witness ==
    /\ Answered
    /\ response.request.min_confidence = 0
    /\ response.request.labels = NoLabels
    /\ \E i, j \in DOMAIN response.raw_used :
          /\ i < j
          /\ KeyOf(response.raw_used[i]) = KeyOf(response.raw_used[j])
          /\ response.raw_used[i].source # "custom_ruler"
          /\ response.raw_used[j].source = "custom_ruler"
    /\ Len(response.entities) < Len(response.raw_used)

\* C7: every entity of a response has a confidence of at least the request's
\* min_confidence, whether the engine or the ruler produced it.
C7_ConfidenceAtLeastMin ==
    Answered =>
        \A i \in DOMAIN response.entities :
            response.entities[i].confidence >= response.request.min_confidence

C7_Witness ==
    /\ Answered
    /\ response.request.min_confidence > 0
    /\ \E i, j \in DOMAIN response.raw_used :
          /\ response.raw_used[i].source = "custom_ruler"
          /\ response.raw_used[i].confidence < response.request.min_confidence
          /\ response.raw_used[j].source # "custom_ruler"
          /\ response.raw_used[j].confidence < response.request.min_confidence
    /\ \E i, j \in DOMAIN response.raw_used :
          /\ response.raw_used[i].source = "custom_ruler"
          /\ response.raw_used[j].source # "custom_ruler"
          /\ \E m, n \in DOMAIN response.entities :
                /\ KeyOf(response.entities[m]) = KeyOf(response.raw_used[i])
                /\ KeyOf(response.entities[n]) = KeyOf(response.raw_used[j])
                /\ m # n

\* C8: with a non-empty label filter every returned entity has a label of the
\* filter; with the filter empty or absent and min_confidence 0, every candidate
\* of the engine pass returned and of the ruler on that pass has an entity with
\* its Span Key in the response.
C8_LabelFilterAndCompleteness ==
    Answered =>
        /\ (response.request.labels \notin {NoLabels, <<>>}) =>
              \A i \in DOMAIN response.entities :
                  \E k \in DOMAIN response.request.labels :
                      response.request.labels[k] = response.entities[i].label
        /\ (response.request.labels \in {NoLabels, <<>>}
            /\ response.request.min_confidence = 0) =>
              \A i \in DOMAIN response.raw_used :
                  \E j \in DOMAIN response.entities :
                      KeyOf(response.entities[j]) = KeyOf(response.raw_used[i])

C8_Witness ==
    /\ Answered
    /\ response.request.labels = <<>>
    /\ response.request.min_confidence = 0
    /\ response.escalate
    /\ \E i, j \in DOMAIN response.raw_used :
          /\ response.raw_used[i].source = "custom_ruler"
          /\ response.raw_used[j].source = ACCURATE
    /\ Len(response.entities) >= 3

\* C9 (as claimed): in auto mode with both engines loaded, the accurate
\* engine's output is returned exactly when the text has at least
\* NER_TRF_MIN_CHARS characters, or the mean confidence of the fast pass's
\* candidates is below NER_TRF_AVG_CONF (1.0 for no candidates), or one of them
\* is below NER_TRF_ESCALATE_SPAN_CONF.
C9_EscalatesIffThresholds ==
    (Answered /\ response.request.model = "auto" /\ {FAST, ACCURATE} \subseteq models)
        => ((response.model_used = ACCURATE)
              <=> \/ TextLength(response.request.text) >= NER_TRF_MIN_CHARS
                  \/ AvgConfBelow(response.raw_fast, NER_TRF_AVG_CONF)
                  \/ LowConfExists(response.raw_fast))

\* C10 (as claimed): a request equal in text, model, min_confidence and labels
\* to the one answered just before it, within ttl, is answered without any
\* engine being run.
C10_RepeatRunsNoEngine ==
    (Answered /\ response.repeat) => response.passes = <<>>

\* C11: a single-text request whose selector is not auto and names no loaded
\* engine is answered with the model-unavailable error, and no engine pass,
\* no pattern pass and no cache operation has been made for it.
C11_UnavailableFailsFirst ==
    (/\ response.status # 0
     /\ response.request.model # "auto"
     /\ response.request.model \notin models)
    => /\ response.status = 400
       /\ response.detail = "model not available"
       /\ response.passes = <<>>
       /\ response.raw_fast = <<>>
       /\ response.raw_used = <<>>
       /\ response.entities = <<>>
       /\ cache = <<>>
       /\ access_times = <<>>
       /\ lastOp = NoOp

\* an engine the service knows but has not loaded was asked for by name
C11_Witness ==
    /\ response.status = 400
    /\ response.request.model \in {FAST, ACCURATE}
    /\ response.request.model \notin models
    /\ response.passes = <<>>

\* ------------------------------------------------------- the batch handler

\* the texts of the batch request handled last on which the engine raises
FailingItems ==
    {i \in DOMAIN batch_response.request.texts :
        nlp_raises(batch_response.request.model, batch_response.request.texts[i])}

\* C12 (as claimed): when the engine fails for exactly one text of a batch
\* request, the call does not fail as a whole: it is answered with one slot per
\* text, and every other slot holds that text's normal result.
C12_OneFailureIsolated ==
    (/\ batch_response.status \notin {0, 422}
     /\ batch_response.request.model \in models
     /\ Cardinality(FailingItems) = 1)
    => /\ batch_response.status = 200
       /\ Len(batch_response.results) = Len(batch_response.request.texts)
       /\ \A j \in DOMAIN batch_response.request.texts \ FailingItems :
             batch_response.results[j].entities =
                 batch_entities(batch_response.request.model,
                                batch_response.request.texts[j],
                                batch_response.request)

\* ------------------------------------------------- a failing pattern matcher

\* the engine's candidates of one pass that pass the two filters, with no
\* candidate of the ruler
EngineOnly(model_name, request) ==
    LET ents == doc_ents(model_name, request.text)
        all == [i \in DOMAIN ents |->
                   [text |-> ents[i].text, label |-> ents[i].label,
                    start |-> ents[i].start, end |-> ents[i].end,
                    confidence |-> calculate_entity_confidence(ents[i].text),
                    source |-> model_name]]
    IN SelectSeq(all, LAMBDA e :
           /\ e.confidence >= request.min_confidence
           /\ \/ request.labels \in {NoLabels, <<>>}
              \/ InLabels(e.label, request.labels))

\* the engine whose pass is returned when the ruler gives no candidate
EngineOnlyModel(request) ==
    IF request.model # "auto" THEN request.model
    ELSE IF FAST \notin models THEN ACCURATE
    ELSE IF Escalate(request, EngineOnly(FAST, request), ACCURATE \in models)
    THEN ACCURATE
    ELSE FAST

\* the ruler was called in a pass of the request handled last, and raised
RulerRaised ==
    /\ response.status \notin {0, 400, 422}
    /\ process_text_raises(response.request.text)
    /\ \E i \in DOMAIN response.passes :
          /\ response.passes[i] \in custom_rulers
          /\ ~nlp_raises(response.passes[i], response.request.text)

\* C13: when the pattern matcher raises during an engine pass, the request is
\* still answered, with the result it would have had the pattern matcher
\* returned no candidate in that pass: the engine's candidates are kept.
C13_PatternFailureIsNoCandidates ==
    RulerRaised
    => /\ response.status = 200
       /\ response.model_used = EngineOnlyModel(response.request)
       /\ response.entities =
              EntitiesOut(Deduplicate(
                  EngineOnly(EngineOnlyModel(response.request), response.request),
                  <<>>))

\* the ruler raised and the engine's candidate is in the answer
C13_Witness ==
    /\ RulerRaised
    /\ response.status = 200
    /\ response.entities # <<>>

\* ------------------------------------------------ failures and the cache

\* C14: a request that fails (engine failure, model unavailable, no engine
\* available), single-text or batch, leaves the result cache as it was: no
\* entry is added, replaced or removed.
C14_FailureLeavesCache ==
    [][(\/ /\ response'.status \in {400, 500}
           /\ (response.status = 0 \/ response' # response)
        \/ /\ batch_response'.status \in {400, 500}
           /\ (batch_response.status = 0 \/ batch_response' # batch_response))
       => /\ cache' = cache
          /\ access_times' = access_times]_vars

\* a single-text request failed on the engine while the cache held an entry
C14_Witness ==
    /\ response.status = 500
    /\ response.passes # <<>>
    /\ cache # <<>>
    /\ DictKeys(access_times) = DictKeys(cache)

\* ------------------------------------------------------------ the cache key

\* a labels argument as a list, None being no label
LabelList(labels) == IF labels = NoLabels THEN <<>> ELSE labels

Count(labels, l) == Len(SelectSeq(LabelList(labels), LAMBDA x : x = l))

\* the two labels arguments name the same set of labels
SameLabelSet(l1, l2) ==
    \A l \in Labels : (Count(l1, l) > 0) <=> (Count(l2, l) > 0)

\* the two labels arguments differ at most in the order of the labels, or in
\* being None and []
SameLabelsUpToOrder(l1, l2) == \A l \in Labels : Count(l1, l) = Count(l2, l)

\* a get was made right after a set, with the same text, model and min_confidence
GetAfterSet ==
    /\ Len(calls) = 2
    /\ calls[1].op = "get"
    /\ calls[2].op = "set"
    /\ calls[1].request.text = calls[2].request.text
    /\ calls[1].request.model = calls[2].request.model
    /\ calls[1].request.min_confidence = calls[2].request.min_confidence

Condition(r) == <<r.status, r.detail>>

\* C16 (as claimed): an auto request handled while no engine is loaded fails
\* with a condition that is neither that of an unavailable model nor that of
\* an engine failure; and the service is not ready after a startup in which no
\* engine could be loaded.
C16_NoEngineDistinct ==
    /\ (/\ response.status \notin {0, 422}
        /\ response.request.model = "auto"
        /\ response.available = {})
       => /\ response.status \notin {0, 200}
          /\ Condition(response) # <<400, "model not available">>
          /\ Condition(response) # <<500, "error processing text">>
    /\ (service = "ready" => models # {})

\* ------------------------------------------------ batch against single-text

\* the single-text request for text i of the batch request handled last
ItemRequest(i) ==
    [text |-> batch_response.request.texts[i],
     model |-> batch_response.request.model,
     min_confidence |-> batch_response.request.min_confidence,
     labels |-> batch_response.request.labels]

\* POST /ner answers the request with 200
SingleSucceeds(q) ==
    /\ NERRequest_valid(q)
    /\ requested_model(q.model) = "auto" \/ requested_model(q.model) \in models
    /\ ~SelectAndRun(q).raised

\* C17 (as claimed): each text of a batch request gets the result the
\* single-text flow gives for the same text, selector, min_confidence and
\* labels: the same engine by the same escalation decision, and the same
\* entities after the pattern pass, the deduplication and the rounding.
C17_BatchEqualsSingle ==
    (/\ batch_response.status \notin {0, 422}
     /\ batch_response.available = models)
    => \A i \in DOMAIN batch_response.request.texts :
          SingleSucceeds(ItemRequest(i))
          => /\ batch_response.status = 200
             /\ batch_response.results[i].model_used =
                    SelectAndRun(ItemRequest(i)).model_used
             /\ batch_response.results[i].entities =
                    EntitiesOut(Deduplicate(
                        SelectAndRun(ItemRequest(i)).entities_final, <<>>))

\* ------------------------------------------------------ concurrent calls

AllReturned == \A t \in Threads : threads[t].pc = "idle"

\* C18 (as claimed): however the statements of concurrent get and set calls
\* on one NERCache interleave, no call raises; once all calls have returned
\* cache and access_times have the same keys, at most max_size of them; and a
\* key set by two calls holds the result written last.
C18_ConcurrentCallsSafe ==
    /\ \A t \in Threads : threads[t].pc # "raised"
    /\ AllReturned
       => /\ DictKeys(cache) = DictKeys(access_times)
          /\ Len(cache) <= max_size
          /\ (lastOp.op = "set" /\ DictHas(cache, lastOp.key))
             => DictGet(cache, lastOp.key) = lastOp.val

\* ------------------------------------------------------------ GET /labels

\* the labels the ruler gives its candidates: BRAND_ and PRODUCT_ patterns
PatternLabels == {"BRAND", "PRODUCT"}

\* C19 (as claimed): the labels GET /labels returns are the labels of every
\* loaded engine together with the pattern labels BRAND and PRODUCT, whatever
\* engines are loaded.
C19_LabelsOfEnginesAndPatterns ==
    [][(labels_response' # labels_response /\ labels_response' # NoLabels)
       => {labels_response'[i] : i \in DOMAIN labels_response'} =
              UNION {ner_labels(m) : m \in models'} \cup PatternLabels]_vars

\* ---------------------------------------------------------- invalid input

BadConfidence(c) == c < 0 \/ c > 10000

BadText(text) == TextLength(text) = 0 \/ TextLength(text) > MAX_LENGTH

\* C20 (as claimed): a single-text or batch request whose min_confidence is
\* outside [0,1], whose text (or one of whose texts) is empty or longer than
\* the limit, or whose batch holds more than 100 texts, is rejected as invalid
\* input, and no engine has been run for it.
C20_InvalidInputRejected ==
    /\ (/\ response.status # 0
        /\ \/ BadConfidence(response.request.min_confidence)
           \/ BadText(response.request.text))
       => /\ response.status = 422
          /\ response.passes = <<>>
    /\ (/\ batch_response.status # 0
        /\ \/ BadConfidence(batch_response.request.min_confidence)
           \/ \E i \in DOMAIN batch_response.request.texts :
                 BadText(batch_response.request.texts[i])
           \/ Len(batch_response.request.texts) > MAX_ITEMS)
       => /\ batch_response.status = 422
          /\ batch_response.passes = <<>>

\* ------------------------------------------------------ the deduplication

\* the candidates of the pass returned that pass the two filters, in the
\* order the pass collected them
Filtered ==
    SelectSeq(response.raw_used, LAMBDA e :
        /\ e.confidence >= response.request.min_confidence
        /\ \/ response.request.labels \in {NoLabels, <<>>}
           \/ InLabels(e.label, response.request.labels))

\* where a Span Key is first seen among the filtered candidates
FirstSeen(key) ==
    CHOOSE j \in DOMAIN Filtered :
        /\ KeyOf(Filtered[j]) = key
        /\ \A k \in 1..(j - 1) : KeyOf(Filtered[k]) # key

\* candidate j is the one kept for its Span Key: none of that key has a
\* higher confidence, and none before it has the same confidence
Winner(j) ==
    \A k \in DOMAIN Filtered :
        KeyOf(Filtered[k]) = KeyOf(Filtered[j])
        => /\ Filtered[k].confidence <= Filtered[j].confidence
           /\ k < j => Filtered[k].confidence < Filtered[j].confidence

\* C21: for each Span Key among the filtered candidates the entity returned
\* is the candidate of that key with the highest confidence, the first of them
\* in input order when several have it; the entities are in the order in which
\* their Span Keys were first seen.
C21_HighestFirstWins ==
    Answered
    => /\ {KeyOf(response.entities[i]) : i \in DOMAIN response.entities}
              = {KeyOf(Filtered[j]) : j \in DOMAIN Filtered}
       /\ \A i \in DOMAIN response.entities :
             \E j \in DOMAIN Filtered :
                /\ Winner(j)
                /\ KeyOf(Filtered[j]) = KeyOf(response.entities[i])
                /\ Filtered[j].label = response.entities[i].label
                /\ Round3(Filtered[j].confidence) = response.entities[i].confidence
       /\ \A i, k \in DOMAIN response.entities :
             i < k => FirstSeen(KeyOf(response.entities[i]))
                         < FirstSeen(KeyOf(response.entities[k]))

\* two candidates of one Span Key had the same, highest, confidence and the
\* earlier one was returned
C21_Witness ==
    /\ Answered
    /\ \E i \in DOMAIN response.entities : \E j, k \in DOMAIN Filtered :
          /\ j < k
          /\ KeyOf(Filtered[j]) = KeyOf(Filtered[k])
          /\ Filtered[j].confidence = Filtered[k].confidence
          /\ Filtered[j].label # Filtered[k].label
          /\ Winner(j)
          /\ KeyOf(response.entities[i]) = KeyOf(Filtered[j])
          /\ response.entities[i].label = Filtered[j].label

\* ------------------------------------------- escalation and the filters

\* C22 (as claimed): the escalation decision of an auto request is taken on
\* the fast pass's candidates before the filters: two answered auto requests
\* for the same text, handled with the same engines and rulers, that differ
\* only in min_confidence or labels reach the same decision.
C22_EscalationIgnoresFilters ==
    [][(/\ response.status = 200
        /\ response'.status = 200
        /\ response.request.model = "auto"
        /\ response'.request.model = "auto"
        /\ response.request.text = response'.request.text)
       => response'.escalate = response.escalate]_vars

\* ------------------------------------------------ auto mode and model_used

\* entity e of the answer is a candidate of the engine or of the ruler of
\* the engine named
FromPassOf(e, model_name) ==
    \/ \E i \in DOMAIN doc_ents(model_name, response.request.text) :
          LET d == doc_ents(model_name, response.request.text)[i]
          IN KeyOf(d) = KeyOf(e) /\ d.label = e.label
    \/ /\ model_name \in custom_rulers
       /\ \E i \in DOMAIN process_text(response.request.text) :
             LET c == process_text(response.request.text)[i]
             IN KeyOf(c) = KeyOf(e) /\ c.label = e.label

\* C23: in auto mode, with the accurate engine not loaded there is no
\* escalation and the answer is the fast pass's, model_used naming the fast
\* engine; with the fast engine not loaded and the accurate one loaded the
\* accurate engine is run with no fast pass; and in every answer model_used
\* names a loaded engine, the last one run, whose pass gave the entities.
C23_AutoFallbackAndModelUsed ==
    /\ (Answered /\ response.request.model = "auto" /\ ACCURATE \notin models)
       => /\ ~response.escalate
          /\ response.passes = <<FAST>>
          /\ response.model_used = FAST
    /\ (/\ response.status \in {200, 500}
        /\ response.request.model = "auto"
        /\ FAST \notin models)
       => /\ response.passes = <<ACCURATE>>
          /\ response.status = 200 => response.model_used = ACCURATE
    /\ Answered
       => /\ response.model_used \in models
          /\ response.passes # <<>>
          /\ response.model_used = response.passes[Len(response.passes)]
          /\ \A i \in DOMAIN response.entities :
                FromPassOf(response.entities[i], response.model_used)

\* only the fast engine is loaded and the fast pass gave a candidate below
\* the span threshold, which would escalate were the accurate engine there
C23_Witness ==
    /\ Answered
    /\ response.request.model = "auto"
    /\ models = {FAST}
    /\ response.model_used = FAST
    /\ \E i \in DOMAIN response.entities :
          response.entities[i].confidence < NER_TRF_ESCALATE_SPAN_CONF

\* ------------------------------------------------- the order of the passes

Occurrences(log, x) == Len(SelectSeq(log, LAMBDA y : y = x))

\* C24: in an auto request the escalation decision is computed at most once,
\* there is at most one fast pass and at most one accurate pass, the fast pass
\* and the decision come before the accurate pass, and nothing is started
\* after the accurate pass.
C24_PassOrder ==
    handler.pc # "idle"
    => /\ Occurrences(handler.log, "fast") <= 1
       /\ Occurrences(handler.log, "decide") <= 1
       /\ Occurrences(handler.log, "accurate") <= 1
       /\ \A i \in DOMAIN handler.log :
             /\ handler.log[i] = "accurate" => i = Len(handler.log)
             /\ handler.log[i] = "decide" => (i > 1 /\ handler.log[i - 1] = "fast")

\* an escalated request was answered: fast pass, decision, accurate pass
C24_Witness ==
    /\ handler.pc = "done"
    /\ handler.log = <<"fast", "decide", "accurate">>
    /\ response.status = 200
    /\ response.model_used = ACCURATE

\* the step-by-step handler answers as extract_entities does
AutoAgrees ==
    (handler.pc = "done" /\ response.status = 200)
    => LET r == SelectAndRun(handler.request)
       IN /\ ~r.raised
          /\ response.entities = EntitiesOut(Deduplicate(r.entities_final, <<>>))
          /\ response.model_used = r.model_used
          /\ response.passes = r.passes
          /\ response.escalate = r.escalate
          /\ response.raw_used = r.raw_used

\* ------------------------------------------------- set on a resident key

\* C25 (as claimed): a set for a key that is resident replaces that entry's
\* result, resets its timestamp and leaves every other resident entry in
\* place, also when the cache holds max_size entries.
C25_OverwriteKeepsOthers ==
    [][\A q \in CacheRequests, res \in CacheResults :
          LET key == generate_key(q.text, q.model, q.min_confidence, q.labels)
          IN (/\ DictHas(cache, key)
              /\ NERCache_set(q.text, q.model, q.min_confidence, q.labels, res))
             => /\ DictGet(cache', key) = res
                /\ DictGet(access_times', key) = now
                /\ \A k \in DictKeys(cache) \ {key} :
                      /\ DictHas(cache', k)
                      /\ DictGet(cache', k) = DictGet(cache, k)
                      /\ DictHas(access_times', k)
                      /\ DictGet(access_times', k) = DictGet(access_times, k)]_vars

\* ------------------------------------------------- the key as a string

\* C26 (as claimed): two calls of _generate_key whose (text, model,
\* min_confidence, sorted labels) differ never build the same key string,
\* for texts and model names over an alphabet that has ':' in it.
C26_KeyDataOneToOne ==
    (/\ probe.fn = "generate_key"
     /\ probe.prev.fields # <<>>
     /\ probe.prev.fields # probe.last.fields)
        => probe.prev.key_data # probe.last.key_data

\* ------------------------------------------------- the pattern candidates

\* the offset after the last character of token i
end_offset(doc, i) == idx(doc, i) + WordLen(doc[i + 1].text)

\* C27 (as claimed): for every pattern match over a token window, also one
\* that ends at the last token of the text, process_text emits a candidate
\* whose start is the start offset of the first token of the window and
\* whose end is the end offset of its last token.
C27_OffsetsOfWindow ==
    (probe.fn = "process_text" /\ probe.result.raised # "ValueError")
        => LET doc == nlp(probe.text)
               matches == probe.result.matches
               entities == probe.result.entities
           IN /\ probe.result.raised = None
              /\ Len(entities) = Len(matches)
              /\ \A i \in DOMAIN entities :
                    /\ entities[i].start = idx(doc, matches[i].start)
                    /\ entities[i].end = end_offset(doc, matches[i].end - 1)

\* C28 (as claimed): every candidate of process_text carries the label its
\* pattern was added with: BRAND and PRODUCT for the startup patterns, the
\* label argument for a pattern of add_custom_pattern.
C28_LabelOfPattern ==
    (probe.fn = "process_text" /\ probe.result.raised = None)
        => \A i \in DOMAIN probe.result.entities :
              probe.result.entities[i].label
                  = DictGet(ruler.matcher, probe.result.matches[i].key).label

\* a pattern is active when a key of the matcher has it
ActivePatterns(r) ==
    UNION {{r.matcher[k].v.patterns[p] : p \in DOMAIN r.matcher[k].v.patterns} :
           k \in DOMAIN r.matcher}

\* the patterns of the BRAND and PRODUCT entities of a training file: LOWER for
\* a word that is alphanumeric, REGEX for a word with punctuation
Derived(training_data) ==
    {[j \in DOMAIN training_data[i].text |->
         LET word == lower(training_data[i].text[j])
         IN IF isalnum(word) THEN [attr |-> "LOWER", value |-> word]
            ELSE [attr |-> "REGEX", value |-> word]] :
        i \in {i \in DOMAIN training_data :
                  /\ training_data[i].label \in {"BRAND", "PRODUCT"}
                  /\ training_data[i].text # <<>>}}

\* C29 (as claimed): add_custom_pattern and load_training_data leave every
\* active pattern active, and once load_training_data has run on a training
\* file the pattern derived from each of its BRAND and PRODUCT entities is
\* active, whichever kind of token the entity text begins with.
C29_PatternsGrowAndTrainedActive ==
    [][/\ ActivePatterns(ruler) \subseteq ActivePatterns(ruler')
       /\ (probe'.fn = "load_training_data" /\ probe'.training_data # NoFile)
             => /\ probe'.raised = None
                /\ Derived(probe'.training_data) \subseteq ActivePatterns(ruler')]_vars

\* the boosts of a candidate, from its window and its label
Boosts(words, label) ==
    (IF Len(words) > 2 THEN 1000 ELSE 0)
        + (IF istitle(words) \/ isupper(words) THEN 1000 ELSE 0)
        + (IF label = "BRAND" /\ has_known_brand(words) THEN 1000 ELSE 0)

\* C30: every confidence lies in [0,1] and depends on its inputs only: the
\* engine score is the length of the entity text over 10, capped at 1; the
\* pattern score is 0.8 plus 0.1 for each boost that applies (more than two
\* tokens, title or upper case, a known brand), capped at 1, whatever
\* patterns the ruler holds.
C30_ConfidenceInRange ==
    /\ probe.fn = "process_text"
          => \A i \in DOMAIN probe.result.entities :
                LET e == probe.result.entities[i]
                    sum == 8000 + Boosts(e.text, e.label)
                IN /\ e.confidence \in 0..10000
                   /\ e.confidence = IF sum > 10000 THEN 10000 ELSE sum
    /\ probe.fn = "calculate_entity_confidence"
          => LET tenths == Len(probe.entity_text)
             IN /\ probe.confidence \in 0..10000
                /\ probe.confidence = IF tenths > 10 THEN 10000 ELSE tenths * 1000

\* a candidate with all three boosts has been scored
C30_Witness ==
    /\ probe.fn = "process_text"
    /\ \E i \in DOMAIN probe.result.entities :
          /\ Boosts(probe.result.entities[i].text, probe.result.entities[i].label) = 3000
          /\ probe.result.entities[i].confidence = 10000

\* ------------------------------------------------- reports of the gateway

\* C31: a metrics_report call, whatever its payload, changes nothing but the
\* circuit-breaker gauges: models, custom_rulers, the ruler's patterns and the
\* cache are as before, and every extraction request is answered after the
\* report as it would have been answered before it.  (A step that leaves a
\* report as the last probed call and answers no request is a report.)
C31_ReportChangesGaugesOnly ==
    [][(/\ probe'.fn = "metrics_report"
        /\ response'.status = response.status
        /\ (response.status = 0 \/ response' = response))
          => /\ UNCHANGED <<models, custom_rulers, ruler, cache, access_times,
                            max_size, ttl>>
             /\ \A request \in [text : {"T2"}, model : {"auto", ACCURATE},
                                min_confidence : {5000}, labels : {NoLabels}] :
                   /\ (requested_model(request.model) = "auto"
                         \/ requested_model(request.model) \in models)
                        <=> (requested_model(request.model) = "auto"
                               \/ requested_model(request.model) \in models')
                   /\ SelectAndRun(request)' = SelectAndRun(request)]_vars

\* a report has set the gauges and an extraction request has been answered
C31_Witness ==
    /\ probe.fn = "metrics_report"
    /\ gauges = [open |-> 1, pending |-> 2, failures |-> 3]
    /\ response.status = 200
    /\ response.entities # <<>>

====
